---------------------------- MODULE Spec2Model ----------------------------
(***************************************************************************)
(* A model of the CFM file manager's batch file-operation engine           *)
(* (core/file_operations.py, utils/helpers.py): copy / move / delete       *)
(* batches with conflict resolution, cooperative cancellation and progress *)
(* snapshots, and create_directory with name validation.                   *)
(*                                                                         *)
(* A file name is a sequence of one-character strings, a path a sequence   *)
(* of names, the filesystem a function from the existing paths to nodes.   *)
(***************************************************************************)
EXTENDS Naturals, Sequences, FiniteSets, TLC

\* ------------------------------------------------------------------ bounds

\* The number of batch calls (copy_items / move_items / delete_items) of a run.
MaxBatches == 2

\* The longest item list handed to a batch call.
MaxItems == 2

\* The number of create_directory calls of a run.
MaxMkdirs == 2

\* calculate_directory_sizes calls on the panel.
MaxScanCalls == 3

\* Copy, move and delete actions of the first interface in a run.
MaxAppActions == 3

\* ------------------------------------------------------------------- names

NameS == <<"S">>
NameD == <<"D">>
NameA == <<"a", ".", "t">>
NameA1 == <<"a", " ", "(", "1", ")", ".", "t">>
NameDir == <<"d">>
NameC == <<"c">>
NameX == <<"x">>
NameN == <<"n">>
NameP == <<"p">>

\* Path(): the empty path that delete_items and create_directory put in the
\* field they do not use.
EmptyPath == <<>>

Parent(p) == SubSeq(p, 1, Len(p) - 1)

BaseName(p) == p[Len(p)]

IsPrefix(p, q) == Len(p) <= Len(q) /\ SubSeq(q, 1, Len(p)) = p

Rebase(q, from, to) == to \o SubSeq(q, Len(from) + 1, Len(q))

\* str.rfind('.') on a name, 1-based; 0 when there is no dot.
RFindDot(name) ==
    LET hits == {k \in 1..Len(name) : name[k] = "."}
    IN  IF hits = {} THEN 0 ELSE CHOOSE k \in hits : \A h \in hits : h <= k

\* pathlib's suffix: from the last dot, unless that dot is the first or the
\* last character of the name.
PathSuffix(name) ==
    LET j == RFindDot(name)
    IN  IF 1 < j /\ j < Len(name) THEN SubSeq(name, j, Len(name)) ELSE <<>>

PathStem(name) ==
    LET j == RFindDot(name)
    IN  IF 1 < j /\ j < Len(name) THEN SubSeq(name, 1, j - 1) ELSE name

DigitChars == <<"0", "1", "2", "3", "4", "5", "6", "7", "8", "9">>

\* str(counter) of the f-string: the decimal digits of a natural.
RECURSIVE Decimal(_)
Decimal(n) ==
    IF n < 10 THEN <<DigitChars[n + 1]>>
    ELSE Decimal(n \div 10) \o <<DigitChars[(n % 10) + 1]>>

\* f"{stem} ({counter}){suffix}"
NumberedName(name, counter) ==
    PathStem(name) \o <<" ", "(">> \o Decimal(counter) \o <<")">> \o PathSuffix(name)

\* -------------------------------------------------------------- filesystem

DirNode == [dir |-> TRUE, data |-> 0]

FileNode(d) == [dir |-> FALSE, data |-> d]

Exists(f, p) == p \in DOMAIN f

IsDir(f, p) == p \in DOMAIN f /\ f[p].dir

IsFile(f, p) == p \in DOMAIN f /\ ~f[p].dir

Subtree(f, p) == {q \in DOMAIN f : IsPrefix(p, q)}

Children(f, p) == {q \in DOMAIN f : Len(q) = Len(p) + 1 /\ IsPrefix(p, q)}

Restrict(f, S) == [q \in S |-> f[q]]

\* The proper ancestors of p, the roots (length 1) included.
Ancestors(p) == {SubSeq(p, 1, k) : k \in 1..(Len(p) - 1)}

\* What a filesystem primitive leaves: whether it returned, and the filesystem.
Returned(f) == [ok |-> TRUE, fs |-> f]

Raised(f) == [ok |-> FALSE, fs |-> f]


\* Write node n at path p (create or replace).
Put(f, p, n) == [q \in (DOMAIN f) \cup {p} |-> IF q = p THEN n ELSE f[q]]

\* ---------------------------------------------- filesystem primitives

\* shutil.copy2(src, dst): into dst when dst is a directory, else onto dst;
\* raises when src is not an existing file, when the resolved target is a
\* directory, or when the target's parent is not a directory.
copy2(f, src, dst) ==
    LET real == IF IsDir(f, dst) THEN dst \o <<BaseName(src)>> ELSE dst
    IN  IF ~IsFile(f, src) \/ IsDir(f, real) \/ ~IsDir(f, Parent(real))
        THEN Raised(f)
        ELSE Returned(Put(f, real, f[src]))

\* An entry q of the tree under src cannot be copied when q or an ancestor of
\* it inside the tree is a directory whose target exists as a file, or q is a
\* file whose target is a directory.
CopyBlocked(f, src, dst, q) ==
    \/ \E a \in Subtree(f, src) :
          /\ IsPrefix(a, q)
          /\ IsDir(f, a)
          /\ IsFile(f, Rebase(a, src, dst))
    \/ IsFile(f, q) /\ IsDir(f, Rebase(q, src, dst))

\* shutil.copytree(src, dst, dirs_exist_ok=True): the tree under src merged
\* into dst; directories are created when missing (os.makedirs, parents
\* included), files are written over their targets, entries of dst that src
\* does not have are left alone. Entries that cannot be copied are skipped
\* and make the call raise at its end.
copytree(f, src, dst) ==
    LET tree    == Subtree(f, src)
        good    == {q \in tree : ~CopyBlocked(f, src, dst, q)}
        parents == {a \in Ancestors(dst) : ~Exists(f, a)}
        targets == {Rebase(q, src, dst) : q \in good} \cup parents
        SrcOf(t) == CHOOSE q \in good : Rebase(q, src, dst) = t
        g == [t \in (DOMAIN f) \cup targets |->
                IF t \in parents THEN DirNode
                ELSE IF t \in targets
                     THEN (IF IsDir(f, SrcOf(t)) THEN DirNode ELSE f[SrcOf(t)])
                     ELSE f[t]]
    IN  IF ~IsDir(f, src) \/ IsPrefix(src, dst)
           \/ \E a \in Ancestors(dst) : IsFile(f, a)
        THEN Raised(f)
        ELSE IF good = tree THEN Returned(g) ELSE Raised(g)

\* shutil.rmtree(path) / Path.unlink(): the entry and everything below it.
RemoveTree(f, p) == Restrict(f, (DOMAIN f) \ Subtree(f, p))

\* os.rename(src, dst) on one filesystem: the tree under src re-rooted at dst.
RenameTree(f, src, dst) ==
    LET tree == Subtree(f, src)
        kept == (DOMAIN f) \ (tree \cup Subtree(f, dst))
        moved == {Rebase(q, src, dst) : q \in tree}
    IN  [t \in kept \cup moved |->
            IF t \in moved THEN f[Rebase(t, dst, src)] ELSE f[t]]

\* shutil.move(src, dst): when dst is an existing directory the source is
\* moved INTO it (dst/basename(src)) and the call raises if that exists;
\* otherwise src is renamed onto dst, replacing an existing file. A directory
\* cannot replace a file, nor move into itself, and a missing source raises.
move(f, src, dst) ==
    LET real == IF IsDir(f, dst) THEN dst \o <<BaseName(src)>> ELSE dst
    IN  IF \/ ~Exists(f, src)
           \/ IsDir(f, dst) /\ Exists(f, real)
           \/ IsDir(f, src) /\ IsFile(f, real)
           \/ IsPrefix(src, real)
           \/ IsFile(f, src) /\ ~IsDir(f, Parent(real))
           \/ \E a \in Ancestors(real) : IsFile(f, a)
        THEN Raised(f)
        ELSE IF IsDir(f, Parent(real))
             THEN Returned(RenameTree(f, src, real))
             \* os.rename fails for the missing parent: copytree, then rmtree
             ELSE Returned(RemoveTree(copytree(f, src, real).fs, src))

\* A mkdir with exist_ok=True: an existing path is no error.
mkdirExistOk(f, p, ioFail) ==
    LET made == {a \in Ancestors(p) \cup {p} : ~Exists(f, a)}
    IN  IF \E a \in Ancestors(p) : IsFile(f, a)
        THEN [ok |-> FALSE, fs |-> f, error |-> "NotADirectoryError"]
        ELSE IF ioFail /\ ~Exists(f, p)
             THEN [ok |-> FALSE, fs |-> f, error |-> "PermissionError"]
             ELSE [ok |-> TRUE,
                   fs |-> [t \in (DOMAIN f) \cup made |->
                             IF t \in made THEN DirNode ELSE f[t]],
                   error |-> "None"]

\* Path.mkdir(parents=True, exist_ok=False): FileExistsError when the path
\* exists, NotADirectoryError when an ancestor is a file, and with ioFail a
\* PermissionError (a failure the filesystem state does not explain);
\* otherwise the path and its missing ancestors become directories.
mkdir(f, p, ioFail) ==
    LET made == {a \in Ancestors(p) \cup {p} : ~Exists(f, a)}
    IN  IF Exists(f, p) THEN [ok |-> FALSE, fs |-> f, error |-> "FileExistsError"]
        ELSE IF \E a \in Ancestors(p) : IsFile(f, a)
             THEN [ok |-> FALSE, fs |-> f, error |-> "NotADirectoryError"]
        ELSE IF ioFail
             THEN [ok |-> FALSE, fs |-> f, error |-> "PermissionError"]
             ELSE [ok |-> TRUE,
                   fs |-> [t \in (DOMAIN f) \cup made |->
                             IF t \in made THEN DirNode ELSE f[t]],
                   error |-> "None"]


\* ------------------------------------------------------------ the engine

\* FileItem.from_path: the snapshot of one entry. size is None for a
\* directory; every use of it is "size or 0" or its truth value, so None is 0.
FileItem(f, p) ==
    [name   |-> BaseName(p),
     path   |-> p,
     is_dir |-> f[p].dir,
     size   |-> IF f[p].dir THEN 0 ELSE f[p].data,
     is_hidden |-> BaseName(p)[1] = "."]

\* Optional[str]: None is <<>>, a string s is <<s>>.
None == <<>>

Some(s) == <<s>>

\* OperationItem(source, destination, operation_type): result and
\* error_message default to None.
OperationItem(src, dst, op) ==
    [source         |-> src,
     destination    |-> dst,
     operation_type |-> op,
     result         |-> "None",
     error_message  |-> None]

\* OperationProgress
OperationProgress(cur, total, curBytes, totalBytes, file, op) ==
    [current_item   |-> cur,
     total_items    |-> total,
     current_bytes  |-> curBytes,
     total_bytes    |-> totalBytes,
     current_file   |-> file,
     operation_type |-> op]

\* sum(item.size or 0 for item in items if not item.is_dir)
RECURSIVE TotalBytes(_)
TotalBytes(its) ==
    IF its = <<>> THEN 0
    ELSE (IF its[1].is_dir THEN 0 ELSE its[1].size) + TotalBytes(Tail(its))

Resolutions == {"overwrite", "skip", "rename", "cancel"}

\* A loop head that does not look at the flag.
LoopNeverBreaks(flag) == FALSE

\* "if self._cancelled: break" at the head of the loop.
LoopBreaks(flag) == flag

\* A conflict check that takes every destination for an existing one.
HasConflictAlways(f, dest) == TRUE

\* "if destination.exists():"
HasConflict(f, dest) == Exists(f, dest)

\* _get_unique_name: count up from 1 until "stem (counter)suffix" is free.
RECURSIVE UniqueNameFrom(_, _, _)
UniqueNameFrom(f, path, counter) ==
    LET new_path == Parent(path) \o <<NumberedName(BaseName(path), counter)>>
    IN  IF ~Exists(f, new_path) THEN new_path
        ELSE UniqueNameFrom(f, path, counter + 1)

\* A unique-name search that takes " (1)" without looking.
FirstNumberedPath(f, path) == Parent(path) \o <<NumberedName(BaseName(path), 1)>>

_get_unique_name(f, path) == UniqueNameFrom(f, path, 1)

\* A copy that makes the directory itself and leaves what is below it.
CopyWithoutContents(f, source, dest, ioFail) ==
    IF ioFail THEN Raised(f)
    ELSE IF IsDir(f, source)
         THEN (IF IsDir(f, Parent(dest)) /\ ~IsFile(f, dest)
               THEN Returned(Put(f, dest, DirNode)) ELSE Raised(f))
         ELSE copy2(f, source, dest)

\* _copy_single_item: copytree for a directory, copy2 otherwise; any
\* exception becomes a FileOperationError. ioFail is a failure of the
\* primitive that the filesystem state does not explain (permissions).
_copy_single_item(f, source, dest, ioFail) ==
    IF ioFail THEN Raised(f)
    ELSE IF IsDir(f, source) THEN copytree(f, source, dest)
         ELSE copy2(f, source, dest)

\* _move_single_item
_move_single_item(f, source, dest, ioFail) ==
    IF ioFail THEN Raised(f) ELSE move(f, source, dest)

\* _delete_single_item: rmtree for a directory, unlink otherwise.
_delete_single_item(f, path, ioFail) ==
    IF ioFail \/ ~Exists(f, path) THEN Raised(f)
    ELSE Returned(RemoveTree(f, path))

\* The OperationItem after the primitive: SUCCESS, or ERROR with str(e) of
\* the FileOperationError the except clause caught.
Finalized(oi, ok) ==
    IF ok THEN [oi EXCEPT !.result = "success"]
    ELSE [oi EXCEPT !.result = "error",
                    !.error_message = Some("Error " \o oi.operation_type)]

\* A loop that an item's error ends: the error leaves the batch call.
AfterItemPropagating(ok) == IF ok THEN "loop" ELSE "idle"

\* Where the loop goes after an item's primitive returned or raised: the
\* except clause swallows the error and the loop goes on.
AfterItem(ok) == "loop"

\* A 'cancel' branch that appends the pending item before it breaks.
ResultsOnCancelAppended(res, oi) == Append(res, oi)

\* The result list when the resolver answers 'cancel': break, nothing added.
ResultsOnCancel(res, oi) == res

\* A 'skip' branch that records the item as done.
ResultsOnSkipAsSuccess(res, oi) == Append(res, [oi EXCEPT !.result = "success"])

\* The result list when the resolver answers 'skip'.
ResultsOnSkip(res, oi) == Append(res, [oi EXCEPT !.result = "skipped"])

\* A result list that takes the newest result first.
AppendResultInFront(res, oi) == <<oi>> \o res

\* "results.append(operation_item)" at the end of the loop body.
AppendResult(res, oi) == Append(res, oi)

\* A byte counter that counts every file reached, whatever became of it.
BytesAfterAnyOutcome(cur, item, ok) ==
    IF ~item.is_dir /\ item.size # 0 THEN cur + item.size ELSE cur

\* "if not item.is_dir and item.size: current_bytes += item.size", reached
\* only when the primitive returned.
BytesAfter(cur, item, ok) ==
    IF ok /\ ~item.is_dir /\ item.size # 0 THEN cur + item.size ELSE cur


\* ------------------------------------------------------ name validation

LowerChars == <<"a", "b", "c", "d", "e", "f", "g", "h", "i", "j", "k", "l", "m",
                "n", "o", "p", "q", "r", "s", "t", "u", "v", "w", "x", "y", "z">>

UpperChars == <<"A", "B", "C", "D", "E", "F", "G", "H", "I", "J", "K", "L", "M",
                "N", "O", "P", "Q", "R", "S", "T", "U", "V", "W", "X", "Y", "Z">>

\* str.upper(), character by character.
UpperChar(c) ==
    IF \E k \in DOMAIN LowerChars : LowerChars[k] = c
    THEN UpperChars[CHOOSE k \in DOMAIN LowerChars : LowerChars[k] = c]
    ELSE c

Upper(name) == [k \in 1..Len(name) |-> UpperChar(name[k])]

\* forbidden_chars = '<>:"/\\|?*'
forbidden_chars == {"<", ">", ":", "\"", "/", "\\", "|", "?", "*"}

\* forbidden_names
forbidden_names ==
    {<<"C", "O", "N">>, <<"P", "R", "N">>, <<"A", "U", "X">>, <<"N", "U", "L">>}
    \cup {<<"C", "O", "M", d>> : d \in {"1", "2", "3", "4", "5", "6", "7", "8", "9"}}
    \cup {<<"L", "P", "T", d>> : d \in {"1", "2", "3", "4", "5", "6", "7", "8", "9"}}

\* A comparison against forbidden_names that forgets upper().
ReservedNameAsWritten(filename) == filename \in forbidden_names

\* The comparison validate_filename makes against forbidden_names.
ReservedName(filename) == Upper(filename) \in forbidden_names

\* validate_filename
validate_filename(filename) ==
    /\ filename # <<>>
    /\ filename \notin {<<".">>, <<".", ".">>}
    /\ ~\E k \in 1..Len(filename) : filename[k] \in forbidden_chars
    /\ ~ReservedName(filename)

\* ------------------------------------------------------------------ state

VARIABLES
    fs,                  \* the filesystem: existing path -> node
    conflict_resolver,   \* whether a ConflictResolver was given (not None)
    _cancelled,          \* FileOperationsManager._cancelled
    _progress_callback,  \* whether a progress callback is registered
    pc,                  \* where the running batch call stands; "idle": none
    operation_type,      \* "copy" | "move" | "delete" of the running batch
    items,               \* its input list of FileItem
    destination_dir,     \* its destination directory
    i,                   \* the loop index, 1-based
    destination,         \* the current item's destination path
    operation_item,      \* the current item's OperationItem
    results,             \* the result list (the returned one when idle)
    current_bytes,       \* the byte counter of the progress snapshots
    batches,             \* batch calls made so far
    flagAtEntry,         \* history: _cancelled when the batch was called
    cancelSeen,          \* history: a cancel was requested during the batch
    stoppedAt,           \* history: the index the loop broke at, 0 if none
    fsAtEntry,           \* history: the filesystem when the batch was called
    itemLog,             \* history: one record per item started
    progressLog,         \* history: the snapshots the callback received
    resolverLog,         \* history: the resolve_conflict calls
    mkdirs,              \* create_directory calls made so far
    lastCreate,          \* history: the last create_directory call
    roundTrip,           \* history: the copy batch whose sources a delete follows
    sizeArgs,            \* what calculate_operation_size is called with
    lastSize,            \* history: the calculate_operation_size call
    panel,               \* a FilePanel of ui/panels/file_panel.py
    returned,            \* history: what the get_selected_items call just made returned
    legacy,              \* a FilePanel of file_panel.py (the legacy application)
    scan,                \* the directory-size scans of the panel
    app,                 \* the queues and dialogs of main.py's FileManagerApp
    cfg,                 \* a ConfigManager and the files it works on
    second,              \* a second batch call on the manager, made while the first is suspended
    ui,                  \* a copy/move/delete handler of MainUI: where it stands, what it did
    main                 \* the two panels of main.py's application and its active_panel

vars == <<fs, conflict_resolver, _cancelled, _progress_callback, pc,
          operation_type, items, destination_dir, i, destination,
          operation_item, results, current_bytes, batches, flagAtEntry,
          cancelSeen, stoppedAt, fsAtEntry, itemLog, progressLog,
          resolverLog, mkdirs, lastCreate, roundTrip, sizeArgs, lastSize,
          panel, returned, legacy, scan, app, cfg, second, ui, main>>

batchVars == <<pc, operation_type, items, destination_dir, i, destination,
               operation_item, results, current_bytes, batches, flagAtEntry,
               stoppedAt, fsAtEntry, itemLog, progressLog, resolverLog>>

dirVars == <<mkdirs, lastCreate>>

sizeVars == <<sizeArgs, lastSize>>

\* What belongs to the application around the engine.
uiVars == <<scan, app, cfg, second, ui, main>>

appVars == <<sizeVars, panel, returned, legacy, uiVars>>

\* The source directory S, the same in every initial filesystem.
SourceTree ==
    (<<NameS>> :> DirNode)
    @@ (<<NameS, NameA>> :> FileNode(3))
    @@ (<<NameS, NameDir>> :> DirNode)
    @@ (<<NameS, NameDir, NameC>> :> FileNode(4))

\* A destination directory D without a.t, and one that has a.t and "a (1).t";
\* both have a directory d with a file x of its own.
PlainDest ==
    (<<NameD>> :> DirNode)
    @@ (<<NameD, NameDir>> :> DirNode)
    @@ (<<NameD, NameDir, NameX>> :> FileNode(5))

BusyDest ==
    PlainDest
    @@ (<<NameD, NameA>> :> FileNode(7))
    @@ (<<NameD, NameA1>> :> FileNode(8))

InitialTrees == {SourceTree @@ d : d \in {PlainDest, BusyDest}}

\* The panel's listing of S: the snapshots a batch is given. They are taken
\* once, so a later batch may hold entries that are gone by then.
SourceItems == {FileItem(SourceTree, q) : q \in Children(SourceTree, <<NameS>>)}

ItemLists ==
    {its \in UNION {[1..n -> SourceItems] : n \in 0..MaxItems} :
        \A j, k \in DOMAIN its : j # k => its[j] # its[k]}

NoRoundTrip ==
    [made |-> FALSE, fs0 |-> SourceTree, dir |-> EmptyPath, clean |-> FALSE]

NoSizeArgs == [items |-> <<>>, order |-> <<>>, mode |-> <<>>]

NoSize == [called |-> FALSE, raised |-> FALSE, total |-> 0]

\* No panel of the one kind or the other has been constructed.
NoPanel ==
    [made |-> FALSE, mounted |-> FALSE, current_path |-> EmptyPath,
     show_hidden |-> FALSE, selected_index |-> 0, file_items |-> <<>>,
     selected_items |-> {}, _scroll_offset |-> 0, height |-> 0]

NoLegacy ==
    [made |-> FALSE, path |-> EmptyPath, show_hidden |-> FALSE,
     files |-> <<>>, selected |-> 0, active |-> FALSE,
     selected_indices |-> {}, last_selected |-> None,
     drag_select_start |-> None, drag_select_button |-> None,
     _scroll_offset |-> 0, height |-> 0]

NoReturn == [called |-> FALSE, items |-> <<>>]

\* FilePanel.__init__: no scan runs and no size is cached.
NoScan ==
    [is_calculating |-> FALSE, calculated_sizes |-> <<>>, frames |-> <<>>,
     calls |-> 0, noop |-> FALSE]

\* No application and no configuration manager.
NoApp == [made |-> FALSE]

NoCfg == [made |-> FALSE]

\* No second batch call.
NoSecond == [pc |-> "none", i |-> 1, n |-> 0]

\* No handler of MainUI has been called.
NoUi ==
    [pc |-> "idle", op |-> "none", selected_items |-> <<>>, result |-> "none",
     before |-> 0, fs0 |-> SourceTree, reloaded |-> {}]

\* The two panels of main.py's application have not been built.
NoMain == [made |-> FALSE]

Untouched == second = NoSecond /\ ui = NoUi /\ main = NoMain

UiIdle == scan = NoScan /\ app = NoApp /\ cfg = NoCfg /\ Untouched

NoCreate ==
    [called |-> FALSE, path |-> EmptyPath, name |-> <<>>, raised |-> FALSE,
     mkdirCalled |-> FALSE, ioFail |-> FALSE, fsBefore |-> SourceTree,
     item |-> OperationItem(EmptyPath, EmptyPath, "create_dir")]

\* The manager after construction, on whatever filesystem it finds.
InitManager ==
    /\ conflict_resolver \in BOOLEAN
    /\ _cancelled = FALSE
    /\ _progress_callback = FALSE
    /\ pc = "idle"
    /\ operation_type = "copy"
    /\ items = <<>>
    /\ destination_dir = EmptyPath
    /\ i = 1
    /\ destination = EmptyPath
    /\ operation_item = OperationItem(EmptyPath, EmptyPath, "copy")
    /\ results = <<>>
    /\ current_bytes = 0
    /\ batches = 0
    /\ flagAtEntry = FALSE
    /\ cancelSeen = FALSE
    /\ stoppedAt = 0
    /\ fsAtEntry = fs
    /\ itemLog = <<>>
    /\ progressLog = <<>>
    /\ resolverLog = <<>>
    /\ mkdirs = 0
    /\ lastCreate = NoCreate
    /\ roundTrip = NoRoundTrip
    /\ lastSize = NoSize

Init ==
    /\ fs \in InitialTrees
    /\ sizeArgs = NoSizeArgs
    /\ panel = NoPanel /\ returned = NoReturn /\ legacy = NoLegacy
    /\ UiIdle
    /\ InitManager


\* ---------------------------------------------------------------- actions

\* A batch entry that leaves the flag as it finds it.
CancelledKept == _cancelled

\* "self._cancelled = False" at the entry of a batch call.
CancelledAtEntry == FALSE

\* set_progress_callback. The observer is registered between batch calls,
\* not during one.
set_progress_callback ==
    /\ pc = "idle"
    /\ _progress_callback' = TRUE
    /\ UNCHANGED <<fs, conflict_resolver, _cancelled, cancelSeen, batchVars,
                   dirVars, roundTrip, appVars>>

\* cancel_operation: sets the flag, whenever it is called: while no batch
\* runs, or between any two steps of a running batch (from the progress
\* callback, from the resolver or while it is awaited, from another thread).
cancel_operation ==
    /\ _cancelled' = TRUE
    /\ cancelSeen' = (cancelSeen \/ pc # "idle")
    /\ UNCHANGED <<fs, conflict_resolver, _progress_callback, batchVars,
                   dirVars, roundTrip, appVars>>

\* The entry of a batch call, up to the loop: the locals, and the flag reset.
EnterBatch(op, its, dir) ==
    /\ pc = "idle"
    /\ batches < MaxBatches
    /\ batches' = batches + 1
    /\ operation_type' = op
    /\ items' = its
    /\ destination_dir' = dir
    /\ results' = <<>>
    /\ current_bytes' = 0
    /\ i' = 1
    /\ _cancelled' = CancelledAtEntry
    /\ pc' = "loop"
    /\ flagAtEntry' = _cancelled
    /\ cancelSeen' = FALSE
    /\ stoppedAt' = 0
    /\ fsAtEntry' = fs
    /\ itemLog' = <<>>
    /\ progressLog' = <<>>
    /\ resolverLog' = <<>>
    /\ destination' = EmptyPath
    /\ operation_item' = OperationItem(EmptyPath, EmptyPath, op)
    /\ UNCHANGED <<fs, conflict_resolver, _progress_callback, dirVars, appVars>>

\* A batch call of the running application.
StartBatch(op, its, dir) == EnterBatch(op, its, dir) /\ UNCHANGED roundTrip

copy_items == \E its \in ItemLists : StartBatch("copy", its, <<NameD>>)

move_items == \E its \in ItemLists : StartBatch("move", its, <<NameD>>)

delete_items == \E its \in ItemLists : StartBatch("delete", its, EmptyPath)

\* A loop without an end of its own: it returns only when the flag is set.
ReturnOnlyOnCancel ==
    /\ pc = "loop"
    /\ LoopBreaks(_cancelled)
    /\ pc' = "idle"
    /\ stoppedAt' = IF i <= Len(items) THEN i ELSE 0
    /\ UNCHANGED <<fs, conflict_resolver, _cancelled, _progress_callback,
                   operation_type, items, destination_dir, i, destination,
                   operation_item, results, current_bytes, batches,
                   flagAtEntry, cancelSeen, fsAtEntry, itemLog, progressLog,
                   resolverLog, dirVars, roundTrip, appVars>>

\* The loop is over, or the flag is found set at its head: return results.
ReturnResults ==
    /\ pc = "loop"
    /\ i > Len(items) \/ LoopBreaks(_cancelled)
    /\ pc' = "idle"
    /\ stoppedAt' = IF i <= Len(items) THEN i ELSE 0
    /\ UNCHANGED <<fs, conflict_resolver, _cancelled, _progress_callback,
                   operation_type, items, destination_dir, i, destination,
                   operation_item, results, current_bytes, batches,
                   flagAtEntry, cancelSeen, fsAtEntry, itemLog, progressLog,
                   resolverLog, dirVars, roundTrip, appVars>>

\* An item starts: the progress snapshot goes to the callback, if any, and
\* the item's OperationItem is made.
BeginItem ==
    /\ pc = "loop"
    /\ i <= Len(items)
    /\ ~LoopBreaks(_cancelled)
    /\ LET item == items[i]
           dest == IF operation_type = "delete" THEN EmptyPath
                   ELSE destination_dir \o <<item.name>>
           progress ==
               OperationProgress(i, Len(items),
                   IF operation_type = "delete" THEN 0 ELSE current_bytes,
                   IF operation_type = "delete" THEN 0 ELSE TotalBytes(items),
                   item.path, operation_type)
       IN  /\ progressLog' = IF _progress_callback
                             THEN Append(progressLog, progress)
                             ELSE progressLog
           /\ destination' = dest
           /\ operation_item' = OperationItem(item.path, dest, operation_type)
           /\ itemLog' = Append(itemLog,
                  [index |-> i, fsBefore |-> fs, existed |-> Exists(fs, dest),
                   resolution |-> "none", primitive |-> "none"])
    /\ pc' = "started"
    /\ UNCHANGED <<fs, conflict_resolver, _cancelled, _progress_callback,
                   operation_type, items, destination_dir, i, results,
                   current_bytes, batches, flagAtEntry, cancelSeen, stoppedAt,
                   fsAtEntry, resolverLog, dirVars, roundTrip, appVars>>

\* copy/move: the conflict check; the resolver is called when the
\* destination exists and a resolver was given.
CheckConflict ==
    /\ pc = "started"
    /\ operation_type # "delete"
    /\ IF HasConflict(fs, destination) /\ conflict_resolver
       THEN /\ pc' = "resolving"
            /\ resolverLog' = Append(resolverLog,
                   [index |-> i, source |-> items[i].path,
                    destination |-> destination,
                    operation_type |-> operation_type])
       ELSE /\ pc' = "execute"
            /\ UNCHANGED resolverLog
    /\ UNCHANGED <<fs, conflict_resolver, _cancelled, _progress_callback,
                   operation_type, items, destination_dir, i, destination,
                   operation_item, results, current_bytes, batches,
                   flagAtEntry, cancelSeen, stoppedAt, fsAtEntry, itemLog,
                   progressLog, dirVars, roundTrip, appVars>>

\* The resolver's answer.
Resolve(resolution) ==
    /\ pc = "resolving"
    /\ itemLog' = [itemLog EXCEPT ![Len(itemLog)].resolution = resolution]
    /\ CASE resolution = "cancel" ->
              /\ _cancelled' = TRUE
              /\ cancelSeen' = TRUE
              /\ stoppedAt' = i
              /\ results' = ResultsOnCancel(results, operation_item)
              /\ pc' = "idle"
              /\ UNCHANGED <<i, destination, operation_item>>
         [] resolution = "skip" ->
              /\ results' = ResultsOnSkip(results, operation_item)
              /\ operation_item' = [operation_item EXCEPT !.result = "skipped"]
              /\ i' = i + 1
              /\ pc' = "loop"
              /\ UNCHANGED <<_cancelled, cancelSeen, stoppedAt, destination>>
         [] resolution = "rename" ->
              /\ destination' = _get_unique_name(fs, destination)
              /\ operation_item' =
                     [operation_item EXCEPT !.destination = destination']
              /\ pc' = "execute"
              /\ UNCHANGED <<_cancelled, cancelSeen, stoppedAt, results, i>>
         [] OTHER ->
              /\ pc' = "execute"
              /\ UNCHANGED <<_cancelled, cancelSeen, stoppedAt, results, i,
                             destination, operation_item>>
    /\ UNCHANGED <<fs, conflict_resolver, _progress_callback, operation_type,
                   items, destination_dir, current_bytes, batches,
                   flagAtEntry, fsAtEntry, progressLog, resolverLog, dirVars,
                   roundTrip, appVars>>

\* The item's primitive runs, its OperationItem is finalized and appended.
Finish(r) ==
    /\ fs' = r.fs
    /\ operation_item' = Finalized(operation_item, r.ok)
    /\ results' = AppendResult(results, operation_item')
    /\ current_bytes' =
           IF operation_type = "delete" THEN current_bytes
           ELSE BytesAfter(current_bytes, items[i], r.ok)
    /\ itemLog' = [itemLog EXCEPT ![Len(itemLog)].primitive =
                                      IF r.ok THEN "returned" ELSE "raised"]
    /\ i' = i + 1
    /\ pc' = AfterItem(r.ok)
    /\ UNCHANGED <<conflict_resolver, _cancelled, _progress_callback,
                   operation_type, items, destination_dir, destination,
                   batches, flagAtEntry, cancelSeen, stoppedAt, fsAtEntry,
                   progressLog, resolverLog, dirVars, roundTrip, appVars>>

Execute(ioFail) ==
    /\ pc = "execute"
    /\ Finish(IF operation_type = "copy"
              THEN _copy_single_item(fs, items[i].path, destination, ioFail)
              ELSE _move_single_item(fs, items[i].path, destination, ioFail))

DeleteItem(ioFail) ==
    /\ pc = "started"
    /\ operation_type = "delete"
    /\ Finish(_delete_single_item(fs, items[i].path, ioFail))

Next ==
    \/ set_progress_callback
    \/ cancel_operation
    \/ copy_items
    \/ move_items
    \/ delete_items
    \/ ReturnResults
    \/ BeginItem
    \/ CheckConflict
    \/ \E resolution \in Resolutions : Resolve(resolution)
    \/ \E ioFail \in BOOLEAN : Execute(ioFail)
    \/ \E ioFail \in BOOLEAN : DeleteItem(ioFail)

Spec == Init /\ [][Next]_vars


\* A step of the coroutine of the running batch.  The coroutine runs on until
\* it returns, and a resolver that answers every call lets it leave its await.
BatchStep ==
    \/ ReturnResults
    \/ BeginItem
    \/ CheckConflict
    \/ \E resolution \in Resolutions : Resolve(resolution)
    \/ \E ioFail \in BOOLEAN : Execute(ioFail)
    \/ \E ioFail \in BOOLEAN : DeleteItem(ioFail)

SpecFair == Init /\ [][Next]_vars /\ WF_vars(BatchStep)

\* The batch coroutine was suspended while item k was its current item.
\* Of the awaits of the two loops only that of resolve_conflict can suspend
\* it: _copy_single_item, _move_single_item and _delete_single_item hold no
\* await, so awaiting them runs them to their end without the event loop
\* getting a turn.
SuspendedDuring(k) ==
    \E r \in 1..Len(resolverLog) : resolverLog[r].index = k


\* ------------------------------------------------------- create_directory

\* The parent paths and the names create_directory is called with.
MkdirParents == {<<NameD>>, <<NameD, NameDir>>, <<NameD, NameN, NameP>>, <<NameD, NameA>>}

MkdirNames ==
    {<<>>, <<".">>, <<".", ".">>, <<"a", "/", "b">>, <<"a", "\\", "b">>,
     <<"C", "O", "N">>, <<"c", "o", "n">>, <<"C", "o", "m", "1">>,
     <<"l", "p", "t", "9">>, NameN, NameX, <<"C", "O", "M", "0">>}

\* create_directory(path, name): the name is validated first and an invalid
\* one raises FileOperationError; otherwise mkdir(parents=True,
\* exist_ok=False), whose FileExistsError and whose other exceptions both
\* end in an OperationItem with result ERROR.
create_directory(path, name, ioFail) ==
    /\ mkdirs < MaxMkdirs
    /\ mkdirs' = mkdirs + 1
    /\ IF ~validate_filename(name)
       THEN /\ fs' = fs
            /\ lastCreate' =
                   [called |-> TRUE, path |-> path, name |-> name,
                    raised |-> TRUE, mkdirCalled |-> FALSE, ioFail |-> FALSE,
                    fsBefore |-> fs,
                    item |-> OperationItem(EmptyPath, EmptyPath, "create_dir")]
       ELSE LET new_dir_path == path \o <<name>>
                r == mkdir(fs, new_dir_path, ioFail)
                oi == OperationItem(EmptyPath, new_dir_path, "create_dir")
            IN  /\ fs' = r.fs
                /\ lastCreate' =
                       [called |-> TRUE, path |-> path, name |-> name,
                        raised |-> FALSE, mkdirCalled |-> TRUE,
                        ioFail |-> ioFail, fsBefore |-> fs,
                        item |->
                            IF r.ok THEN [oi EXCEPT !.result = "success"]
                            ELSE [oi EXCEPT
                                    !.result = "error",
                                    !.error_message =
                                        IF r.error = "FileExistsError"
                                        THEN Some("Directory already exists")
                                        ELSE Some(r.error)]]
    /\ UNCHANGED <<conflict_resolver, _cancelled, _progress_callback,
                   cancelSeen, batchVars, roundTrip, appVars>>

NextDir ==
    \E path \in MkdirParents, name \in MkdirNames, ioFail \in BOOLEAN :
        create_directory(path, name, ioFail)

SpecDir == Init /\ [][NextDir]_vars


\* -------------------------------------------- copy, then delete the sources

\* The destination directories of the round trip: D, and D/d, where neither
\* entry of S has a namesake.
RoundTripDirs == {<<NameD>>, <<NameD, NameDir>>}

\* copy_items(S, D) as the first call.
copy_first ==
    \E its \in ItemLists, dir \in RoundTripDirs :
        batches = 0 /\ StartBatch("copy", its, dir)

\* move_items(S, D) as the first call.
move_first ==
    \E its \in ItemLists, dir \in RoundTripDirs :
        batches = 0 /\ StartBatch("move", its, dir)

\* delete_items(S) with the item list of the copy batch that has returned.
delete_copied ==
    /\ batches = 1
    /\ operation_type = "copy"
    /\ roundTrip' = [made |-> TRUE, fs0 |-> fsAtEntry, dir |-> destination_dir,
                     clean |-> /\ Len(results) = Len(items)
                               /\ \A j \in 1..Len(results) :
                                     /\ ~itemLog[j].existed
                                     /\ itemLog[j].primitive = "returned"
                                     /\ results[j].result = "success"]
    /\ EnterBatch("delete", items, EmptyPath)

NextRoundTrip ==
    \/ copy_first
    \/ move_first
    \/ delete_copied
    \/ ReturnResults
    \/ BeginItem
    \/ CheckConflict
    \/ \E resolution \in Resolutions : Resolve(resolution)
    \/ \E ioFail \in BOOLEAN : Execute(ioFail)
    \/ \E ioFail \in BOOLEAN : DeleteItem(ioFail)

SpecRoundTrip == Init /\ [][NextRoundTrip]_vars


\* ------------------------------------------------ calculate_operation_size

\* Two files of 100 and 200 bytes and a directory T with three files of 50
\* bytes, one of them directly in T and one in each of its two directories.
SizeT == <<NameS, <<"T">> >>

SizeTree ==
    (<<NameS>> :> DirNode)
    @@ (<<NameS, <<"u">> >> :> FileNode(100))
    @@ (<<NameS, <<"v">> >> :> FileNode(200))
    @@ (SizeT :> DirNode)
    @@ (SizeT \o <<NameX>> :> FileNode(50))
    @@ (SizeT \o <<NameP>> :> DirNode)
    @@ (SizeT \o <<NameP, NameC>> :> FileNode(50))
    @@ (SizeT \o <<NameN>> :> DirNode)
    @@ (SizeT \o <<NameN, NameC>> :> FileNode(50))

\* What the permissions of a directory allow: everything; not to list it
\* (scandir raises PermissionError); or to list it but not to reach its
\* entries (stat of an entry raises PermissionError).
DirModes == {"open", "unlistable", "unsearchable"}

\* The inputs: a list of distinct entries of S, the order in which scandir
\* hands out directory entries (any), and the modes of the directories.
SizeInputs ==
    LET below == Subtree(SizeTree, SizeT) \ {SizeT}
        n     == Cardinality(below)
        all   == {FileItem(SizeTree, q) : q \in Children(SizeTree, <<NameS>>)}
    IN  [items : {its \in UNION {[1..k -> all] : k \in 0..Cardinality(all)} :
                     \A j, k \in DOMAIN its : j # k => its[j] # its[k]},
         order : {o \in [1..n -> below] :
                     \A j, k \in 1..n : j # k => o[j] # o[k]},
         mode  : [{q \in Subtree(SizeTree, SizeT) : IsDir(SizeTree, q)}
                     -> DirModes]]

\* scandir(d) raises PermissionError: d cannot be listed, or cannot be reached.
ScandirRaises(d, mode) ==
    \/ mode[d] = "unlistable"
    \/ \E a \in Ancestors(d) \cap DOMAIN mode : mode[a] = "unsearchable"

\* stat(q), and so Path.is_file(), raises PermissionError.
StatRaises(q, mode) ==
    \E a \in Ancestors(q) \cap DOMAIN mode : mode[a] = "unsearchable"

\* The entries of d as scandir hands them out; none when scandir raises,
\* which rglob swallows.
Scandir(f, d, order, mode) ==
    IF ScandirRaises(d, mode) THEN <<>>
    ELSE SelectSeq(order, LAMBDA q : q \in Children(f, d))

\* pathlib's _iterate_directories: the directories, each before those
\* below it, from a stack of directories still to visit.
RECURSIVE IterateDirectories(_, _, _, _)
IterateDirectories(f, stack, order, mode) ==
    IF stack = <<>> THEN <<>>
    ELSE LET d    == Head(stack)
             subs == SelectSeq(Scandir(f, d, order, mode),
                               LAMBDA q : IsDir(f, q))
         IN  <<d>> \o IterateDirectories(f, subs \o Tail(stack), order, mode)

\* path.rglob('*'): for each directory in turn, its entries.
RECURSIVE EntriesOf(_, _, _, _)
EntriesOf(f, dirs, order, mode) ==
    IF dirs = <<>> THEN <<>>
    ELSE Scandir(f, Head(dirs), order, mode)
         \o EntriesOf(f, Tail(dirs), order, mode)

rglob(f, d, order, mode) ==
    EntriesOf(f, IterateDirectories(f, <<d>>, order, mode), order, mode)

\* The loop over rglob inside the try: the sizes of the files add up until
\* an entry raises, which ends the loop with the sum so far.
RECURSIVE SumUntilRaise(_, _, _, _)
SumUntilRaise(f, walk, mode, sum) ==
    IF walk = <<>> THEN sum
    ELSE IF StatRaises(Head(walk), mode) THEN sum
    ELSE SumUntilRaise(f, Tail(walk), mode,
             sum + (IF IsFile(f, Head(walk)) THEN f[Head(walk)].data ELSE 0))

\* calculate_operation_size: item.size for a file, the walk for a directory.
RECURSIVE OperationSize(_, _, _, _)
OperationSize(f, its, order, mode) ==
    IF its = <<>> THEN 0
    ELSE (IF its[1].is_dir
          THEN SumUntilRaise(f, rglob(f, its[1].path, order, mode), mode, 0)
          ELSE its[1].size)
         + OperationSize(f, Tail(its), order, mode)

\* calculate_operation_size(items): returns the sum; no exception leaves it.
calculate_operation_size ==
    /\ ~lastSize.called
    /\ lastSize' =
           [called |-> TRUE, raised |-> FALSE,
            total  |-> OperationSize(fs, sizeArgs.items, sizeArgs.order,
                                     sizeArgs.mode)]
    /\ UNCHANGED <<fs, conflict_resolver, _cancelled, _progress_callback,
                   cancelSeen, batchVars, dirVars, roundTrip, sizeArgs,
                   panel, returned, legacy, uiVars>>

InitSize ==
    /\ fs = SizeTree
    /\ sizeArgs \in SizeInputs
    /\ panel = NoPanel /\ returned = NoReturn /\ legacy = NoLegacy
    /\ UiIdle
    /\ InitManager

NextSize == calculate_operation_size

SpecSize == InitSize /\ [][NextSize]_vars


\* ------------------------------------- the panel (ui/panels/file_panel.py)

\* The characters of the names, in code point order.
CodePoints ==
    <<" ", "!", "(", ")", ".">> \o DigitChars \o UpperChars \o <<"_">> \o LowerChars

\* str.lower(), character by character.
Lower(name) ==
    [k \in 1..Len(name) |->
        IF \E n \in DOMAIN UpperChars : UpperChars[n] = name[k]
        THEN LowerChars[CHOOSE n \in DOMAIN UpperChars : UpperChars[n] = name[k]]
        ELSE name[k]]

\* a < b for two str: by code point at the first difference, a proper
\* prefix first.
StrLess(a, b) ==
    LET Code(c) == CHOOSE n \in DOMAIN CodePoints : CodePoints[n] = c
    IN  \E k \in 1..(Len(a) + 1) :
            /\ k <= Len(b)
            /\ SubSeq(a, 1, k - 1) = SubSeq(b, 1, k - 1)
            /\ (k > Len(a) \/ Code(a[k]) < Code(b[k]))

\* A sort by (not x.is_dir, x.name), the case of the letters kept.
SortedCaseSensitive(entries) ==
    LET n == Cardinality(entries)
        KeyLess(x, y) ==
            \/ x.is_dir /\ ~y.is_dir
            \/ x.is_dir = y.is_dir /\ StrLess(x.name, y.name)
    IN  {l \in [1..n -> entries] :
            /\ \A j, k \in 1..n : j # k => l[j] # l[k]
            /\ \A j, k \in 1..n : j < k => ~KeyLess(l[k], l[j])}

\* items.sort(key=lambda x: (not x.is_dir, x.name.lower())): the lists a
\* stable sort can leave, whatever order the entries came in.
RECURSIVE SortedLists(_)
SortedLists(entries) ==
    LET KeyLess(x, y) ==
            \/ x.is_dir /\ ~y.is_dir
            \/ x.is_dir = y.is_dir /\ StrLess(Lower(x.name), Lower(y.name))
        first == {x \in entries : \A y \in entries : ~KeyLess(y, x)}
    IN  IF entries = {} THEN {<<>>}
        ELSE UNION {{<<x>> \o l : l \in SortedLists(entries \ {x})} :
                       x \in first}

\* FileItem.create_parent_item(path): the synthetic entry ".." for the
\* parent directory.
create_parent_item(path) ==
    [name |-> <<".", ".">>, path |-> Parent(path), is_dir |-> TRUE,
     size |-> 0, is_hidden |-> FALSE]

\* pathlib's path.parent: the root is its own parent.
PathParent(path) == IF Len(path) <= 1 THEN path ELSE Parent(path)

\* The tree the panels show: the root R with the directory k and the file
\* w; in k the directory "!m" (holding the hidden file ".z"), the hidden
\* file ".h" and the files b and E.
PanelRoot == << <<"R">> >>

PanelTree ==
    LET k == PanelRoot \o << <<"k">> >>
    IN  (PanelRoot :> DirNode)
        @@ (k :> DirNode)
        @@ (PanelRoot \o << <<"w">> >> :> FileNode(1))
        @@ (k \o << <<"!", "m">> >> :> DirNode)
        @@ (k \o << <<"!", "m">>, <<".", "z">> >> :> FileNode(2))
        @@ (k \o << <<".", "h">> >> :> FileNode(3))
        @@ (k \o << <<"b">> >> :> FileNode(4))
        @@ (k \o << <<"E">> >> :> FileNode(5))

\* Path.home()
Home == PanelRoot \o << <<"k">> >>

\* The paths a panel is sent to: directories, a file, a path that is not there.
PanelPaths ==
    {PanelRoot, Home, Home \o << <<"!", "m">> >>,
     PanelRoot \o << <<"w">> >>, PanelRoot \o << <<"q">> >>}

\* What can go wrong in a load: nothing; stat raises PermissionError
\* (current_path.exists()), or iterdir does.
LoadFaults == {"none", "stat", "iterdir"}

\* The visible rows of a table of the given height.
max_rows(height) ==
    IF height > 3 THEN (IF height - 3 > 1 THEN height - 3 ELSE 1) ELSE 20

\* _ensure_selected_visible
_ensure_selected_visible(p) ==
    LET offset ==
            IF p.selected_index < p._scroll_offset THEN p.selected_index
            ELSE IF p.selected_index >= p._scroll_offset + max_rows(p.height)
                 THEN p.selected_index - max_rows(p.height) + 1
                 ELSE p._scroll_offset
    IN  [p EXCEPT !._scroll_offset = IF offset < 0 THEN 0 ELSE offset]

\* load_directory(path): the panels it can leave (one per order of the
\* listing). path is None or Some(path). The except clause at its end
\* swallows what an early stat raises, after current_path is set.
load_directory(f, p, path, fault) ==
    LET p1   == IF path = None THEN p ELSE [p EXCEPT !.current_path = path[1]]
        cp2  == IF ~Exists(f, p1.current_path) THEN Home ELSE p1.current_path
        cp3  == IF ~IsDir(f, cp2) THEN PathParent(cp2) ELSE cp2
        read == IF fault = "iterdir" THEN {}
                ELSE {it \in {FileItem(f, q) : q \in Children(f, cp3)} :
                         ~(it.is_hidden /\ ~p1.show_hidden)}
        all  == IF cp3 # PathParent(cp3)
                THEN read \cup {create_parent_item(cp3)} ELSE read
    IN  IF fault = "stat" THEN {p1}
        ELSE {_ensure_selected_visible(
                 [p1 EXCEPT
                    !.current_path = cp3,
                    !.file_items = l,
                    !.selected_index =
                        IF 0 <= p1.selected_index /\ p1.selected_index < Len(l)
                        THEN p1.selected_index ELSE 0,
                    !._scroll_offset = 0,
                    !.selected_items = {}]) : l \in SortedLists(all)}


\* list[k] of Python, 0-based, a negative k counted from the end.
ItemAt(l, k) == IF k < 0 THEN l[Len(l) + k + 1] ELSE l[k + 1]

\* A cursor move that trusts delta.
MoveCursorUnclamped(p, delta) ==
    IF p.file_items = <<>> \/ delta = 0 THEN p
    ELSE _ensure_selected_visible(
             [p EXCEPT !.selected_index = p.selected_index + delta])

\* _move_cursor(delta)
_move_cursor(p, delta) ==
    LET last      == Len(p.file_items) - 1
        target    == p.selected_index + delta
        new_index == IF target > last THEN (IF last < 0 THEN 0 ELSE last)
                     ELSE IF target < 0 THEN 0 ELSE target
    IN  IF p.file_items = <<>> \/ new_index = p.selected_index THEN p
        ELSE _ensure_selected_visible([p EXCEPT !.selected_index = new_index])

\* _move_cursor_to(index)
_move_cursor_to(p, index) ==
    IF 0 <= index /\ index < Len(p.file_items)
    THEN _ensure_selected_visible([p EXCEPT !.selected_index = index])
    ELSE p

\* _activate_current_item: a directory is entered, a file is opened outside.
\* An index below -len(file_items) raises IndexError, which changes nothing.
_activate_current_item(f, p, fault) ==
    IF \/ p.file_items = <<>>
       \/ p.selected_index >= Len(p.file_items)
       \/ p.selected_index < 0 - Len(p.file_items)
    THEN {p}
    ELSE IF ItemAt(p.file_items, p.selected_index).is_dir
         THEN load_directory(f, p,
                  Some(ItemAt(p.file_items, p.selected_index).path), fault)
         ELSE {p}

\* _go_parent
_go_parent(f, p, fault) ==
    IF PathParent(p.current_path) # p.current_path
    THEN load_directory(f, p, Some(PathParent(p.current_path)), fault)
    ELSE {p}

\* A toggle that does not look at what is under the cursor.
ToggleAnyEntry(p) ==
    IF p.file_items = <<>> \/ p.selected_index >= Len(p.file_items) THEN p
    ELSE [p EXCEPT !.selected_items =
             IF p.selected_index \in @ THEN @ \ {p.selected_index}
             ELSE @ \cup {p.selected_index}]

\* _toggle_selection
_toggle_selection(p) ==
    IF \/ p.file_items = <<>>
       \/ p.selected_index >= Len(p.file_items)
       \/ p.selected_index < 0 - Len(p.file_items)
    THEN p
    ELSE IF ItemAt(p.file_items, p.selected_index).name = <<".", ".">> THEN p
    ELSE [p EXCEPT !.selected_items =
             IF p.selected_index \in @ THEN @ \ {p.selected_index}
             ELSE @ \cup {p.selected_index}]

\* A select-all that takes every row of the table.
SelectEveryRow(p) ==
    [p EXCEPT !.selected_items = 0..(Len(p.file_items) - 1)]

\* _select_all
_select_all(p) ==
    [p EXCEPT !.selected_items =
        {k \in 0..(Len(p.file_items) - 1) :
            ItemAt(p.file_items, k).name # <<".", ".">>}]

\* A get_selected_items that knows the cursor only.
SelectedItemsCursorOnly(p) ==
    IF /\ p.file_items # <<>>
       /\ 0 <= p.selected_index
       /\ p.selected_index < Len(p.file_items)
       /\ ItemAt(p.file_items, p.selected_index).name # <<".", ".">>
    THEN {<<ItemAt(p.file_items, p.selected_index)>>}
    ELSE {<<>>}

\* The orders in which a set can be iterated.
RECURSIVE Orders(_)
Orders(S) ==
    IF S = {} THEN {<<>>}
    ELSE UNION {{<<x>> \o o : o \in Orders(S \ {x})} : x \in S}

\* get_selected_items: the lists it can return (a set is iterated in any
\* order).
get_selected_items(p) ==
    IF p.selected_items = {}
    THEN (IF /\ p.file_items # <<>>
             /\ 0 <= p.selected_index
             /\ p.selected_index < Len(p.file_items)
             /\ ItemAt(p.file_items, p.selected_index).name # <<".", ".">>
          THEN {<<ItemAt(p.file_items, p.selected_index)>>}
          ELSE {<<>>})
    ELSE {[j \in 1..Len(o) |-> ItemAt(p.file_items, o[j])] :
             o \in Orders({k \in p.selected_items : k < Len(p.file_items)})}

\* What the panels leave alone.
coreVars ==
    <<fs, conflict_resolver, _cancelled, _progress_callback, cancelSeen,
      batchVars, dirVars, roundTrip, sizeVars>>

engineVars == <<coreVars, uiVars>>

\* FilePanel.__init__: the state comes from the persisted PanelConfig; the
\* table has its height for good.
FilePanel(config, height) ==
    [made |-> TRUE, mounted |-> FALSE, current_path |-> config.path,
     show_hidden |-> config.show_hidden,
     selected_index |-> config.selected_index, file_items |-> <<>>,
     selected_items |-> {}, _scroll_offset |-> 0, height |-> height]

\* The persisted configurations and the table heights (0: not laid out yet).
PanelConfigs ==
    [path : {PanelRoot, Home}, show_hidden : BOOLEAN,
     selected_index : {0 - 1, 0, 2, 7}]

PanelHeights == {0, 5}

\* One handler of the mounted panel runs and leaves one of the panels in next.
PanelStep(next) ==
    /\ panel.made
    /\ panel.mounted
    /\ panel' \in next
    /\ returned' = NoReturn
    /\ UNCHANGED <<engineVars, legacy>>

\* on_mount
on_mount(fault) ==
    /\ panel.made
    /\ ~panel.mounted
    /\ panel' \in load_directory(fs, [panel EXCEPT !.mounted = TRUE], None, fault)
    /\ returned' = NoReturn
    /\ UNCHANGED <<engineVars, legacy>>

PanelKeys ==
    {"up", "down", "left", "right", "enter", "backspace", "space", "pageup",
     "pagedown", "home", "end", "ctrl+a", "ctrl+0", "ctrl+2", "ctrl+9", "f1"}

\* handle_key
handle_key(key, fault) ==
    /\ fault = "none" \/ key \in {"left", "backspace", "right", "enter"}
    /\ PanelStep(
           CASE key = "up" -> {_move_cursor(panel, 0 - 1)}
             [] key = "down" -> {_move_cursor(panel, 1)}
             [] key \in {"left", "backspace"} -> _go_parent(fs, panel, fault)
             [] key \in {"right", "enter"} ->
                    _activate_current_item(fs, panel, fault)
             [] key = "space" -> {_toggle_selection(panel)}
             [] key = "pageup" -> {_move_cursor(panel, 0 - 10)}
             [] key = "pagedown" -> {_move_cursor(panel, 10)}
             [] key = "home" -> {_move_cursor_to(panel, 0)}
             [] key = "end" ->
                    IF panel.file_items # <<>>
                    THEN {_move_cursor_to(panel, Len(panel.file_items) - 1)}
                    ELSE {panel}
             [] key = "ctrl+a" -> {_select_all(panel)}
             [] key \in {"ctrl+0", "ctrl+2", "ctrl+9"} ->
                    LET index == (CASE key = "ctrl+0" -> 0 [] key = "ctrl+2" -> 2
                                    [] OTHER -> 9) - 1
                    IN  IF 0 <= index /\ index < Len(panel.file_items)
                        THEN {_move_cursor_to(panel, index)} ELSE {panel}
             [] OTHER -> {panel})

\* _move_cursor and _move_cursor_to called with any argument.
move_cursor(delta) == PanelStep({_move_cursor(panel, delta)})

move_cursor_to(index) == PanelStep({_move_cursor_to(panel, index)})

\* load_directory(path) called from outside the panel.
navigate(path, fault) == PanelStep(load_directory(fs, panel, Some(path), fault))

\* toggle_hidden_files
toggle_hidden_files(fault) ==
    PanelStep(load_directory(fs, [panel EXCEPT !.show_hidden = ~@], None, fault))

\* reload_content
reload_content(fault) == PanelStep(load_directory(fs, panel, None, fault))

\* clear_selection
clear_selection == PanelStep({[panel EXCEPT !.selected_items = {}]})

\* A get_selected_items call: the panel is as it was.
selected_items_asked ==
    /\ panel.made
    /\ panel.mounted
    /\ \E l \in get_selected_items(panel) :
          returned' = [called |-> TRUE, items |-> l]
    /\ UNCHANGED <<engineVars, panel, legacy>>

NextNewPanel ==
    \/ \E fault \in LoadFaults : on_mount(fault)
    \/ \E key \in PanelKeys, fault \in LoadFaults : handle_key(key, fault)
    \/ \E delta \in {0 - 100, 0 - 2, 0, 2, 100} : move_cursor(delta)
    \/ \E index \in (0 - 2)..6 : move_cursor_to(index)
    \/ \E path \in PanelPaths, fault \in LoadFaults : navigate(path, fault)
    \/ \E fault \in LoadFaults : toggle_hidden_files(fault)
    \/ \E fault \in LoadFaults : reload_content(fault)
    \/ clear_selection
    \/ selected_items_asked

InitNewPanel ==
    /\ fs = PanelTree
    /\ sizeArgs = NoSizeArgs
    /\ panel \in {FilePanel(c, h) : c \in PanelConfigs, h \in PanelHeights}
    /\ returned = NoReturn
    /\ legacy = NoLegacy
    /\ UiIdle
    /\ InitManager

SpecNewPanel == InitNewPanel /\ [][NextNewPanel]_vars


\* ---------------------------------------------------------------------
\* The panel of the first interface (src/file_panel.py)

\* One dictionary of files.
LegacyEntry(f, q) ==
    [name |-> BaseName(q), is_dir |-> IsDir(f, q),
     hidden |-> BaseName(q)[1] = "."]

\* The rows under the header: size.height - 3, at least one.
LegacyRows(g) == IF g.height - 3 < 1 THEN 1 ELSE g.height - 3

\* FilePanel._ensure_selected_visible of src/file_panel.py
legacy_ensure_selected_visible(g) ==
    LET offset ==
            IF g.selected < g._scroll_offset THEN g.selected
            ELSE IF g.selected >= g._scroll_offset + LegacyRows(g)
                 THEN g.selected - LegacyRows(g) + 1
                 ELSE g._scroll_offset
    IN  [g EXCEPT !._scroll_offset = IF offset < 0 THEN 0 ELSE offset]

\* refresh_files: the panels it can leave. listdir raising, or os.stat raising
\* for one of the entries that passed the filter, leaves an empty list and
\* nothing else changed.
refresh_files(f, g, fault) ==
    LET entries == {e \in {LegacyEntry(f, q) : q \in Children(f, g.path)} :
                       g.show_hidden \/ ~e.hidden}
    IN  IF \/ fault = "listdir"
           \/ ~IsDir(f, g.path)
           \/ fault = "stat" /\ entries # {}
        THEN {[g EXCEPT !.files = <<>>]}
        ELSE {legacy_ensure_selected_visible(
                 [g EXCEPT
                    !.files = l,
                    !.selected_indices = {k \in @ : k < Len(l)},
                    !.selected = IF @ >= Len(l)
                                 THEN (IF Len(l) - 1 < 0 THEN 0 ELSE Len(l) - 1)
                                 ELSE @]) : l \in SortedLists(entries)}

\* FilePanel(path, show_hidden, active) of src/file_panel.py
LegacyPanel(f, path, show_hidden, active, height, fault) ==
    refresh_files(f,
        [made |-> TRUE, path |-> path, show_hidden |-> show_hidden,
         files |-> <<>>, selected |-> 0, active |-> active,
         selected_indices |-> {}, last_selected |-> None,
         drag_select_start |-> None, drag_select_button |-> None,
         _scroll_offset |-> 0, height |-> height], fault)

\* The panel shows another directory from its top.
LegacyOpen(f, g, path, fault) ==
    refresh_files(f,
        [g EXCEPT !.path = path, !.selected = 0, !.selected_indices = {},
                  !.last_selected = None, !._scroll_offset = 0], fault)

\* enter_selected
enter_selected(f, g, fault) ==
    IF g.files = <<>> THEN {g}
    ELSE IF ItemAt(g.files, g.selected).is_dir
         THEN LegacyOpen(f, g,
                  Append(g.path, ItemAt(g.files, g.selected).name), fault)
         ELSE {g}

\* go_up
go_up(f, g, fault) ==
    IF PathParent(g.path) # g.path
    THEN LegacyOpen(f, g, PathParent(g.path), fault)
    ELSE {g}

\* The selection with the range between two rows added.
AddSpan(g, a, b) ==
    g.selected_indices \cup
        ((IF a < b THEN a ELSE b)..(IF a < b THEN b ELSE a))

\* on_key: only the active panel listens.
LegacyKey(f, g, key, fault) ==
    IF ~g.active THEN {g}
    ELSE CASE key = "space" ->
                {[g EXCEPT
                    !.selected_indices =
                        IF g.selected \in @ THEN @ \ {g.selected}
                        ELSE @ \cup {g.selected},
                    !.last_selected = Some(g.selected)]}
           [] key = "m" ->
                {[g EXCEPT
                    !.selected_indices =
                        IF /\ g.last_selected # None
                           /\ g.last_selected[1] # g.selected
                        THEN AddSpan(g, g.last_selected[1], g.selected)
                        ELSE @ \cup {g.selected},
                    !.last_selected = Some(g.selected)]}
           [] key \in {"up", "down"} ->
                LET s == IF key = "up"
                         THEN (IF g.selected - 1 < 0 THEN 0 ELSE g.selected - 1)
                         ELSE (IF Len(g.files) - 1 < g.selected + 1
                               THEN Len(g.files) - 1 ELSE g.selected + 1)
                IN  {legacy_ensure_selected_visible(
                        [g EXCEPT !.selected = s,
                                  !.last_selected = Some(s),
                                  !.selected_indices = {s}])}
           [] key \in {"right", "enter"} ->
                IF g.files # <<>> /\ ItemAt(g.files, g.selected).is_dir
                THEN {legacy_ensure_selected_visible(h) :
                         h \in enter_selected(f, g, fault)}
                ELSE {g}
           [] key \in {"left", "backspace"} ->
                {legacy_ensure_selected_visible(h) : h \in go_up(f, g, fault)}
           [] OTHER -> {g}

\* The row of files under the mouse: the row of the event, kept inside the
\* table, counted from the scroll offset.
RowIndex(g, row) ==
    g._scroll_offset +
        (IF row < 0 THEN 0
         ELSE IF row > LegacyRows(g) - 1 THEN LegacyRows(g) - 1 ELSE row)

\* on_mouse_down: the clicked panel becomes the active one.
MouseDown(g, row, ctrl, shift, button) ==
    LET file_idx == RowIndex(g, row)
        toggled  == IF file_idx \in g.selected_indices
                    THEN g.selected_indices \ {file_idx}
                    ELSE g.selected_indices \cup {file_idx}
        at       == [g EXCEPT !.selected = file_idx]
        done ==
            IF button = 3
            THEN (IF g.drag_select_start = None
                  THEN [at EXCEPT !.selected_indices = toggled,
                                  !.last_selected = Some(file_idx),
                                  !.drag_select_start = Some(file_idx),
                                  !.drag_select_button = Some(3)]
                  ELSE at)
            ELSE IF ctrl
            THEN [at EXCEPT !.selected_indices = toggled,
                            !.last_selected = Some(file_idx)]
            ELSE IF shift /\ g.last_selected # None
            THEN [at EXCEPT !.selected_indices =
                                AddSpan(g, g.last_selected[1], file_idx)]
            ELSE [at EXCEPT !.selected_indices = {file_idx},
                            !.last_selected = Some(file_idx)]
    IN  IF file_idx < 0 \/ file_idx >= Len(g.files) THEN g
        ELSE [legacy_ensure_selected_visible(done) EXCEPT !.active = TRUE]

\* on_mouse_move: with the right button held, the rows from the start of
\* the drag to the mouse become the selection.
MouseMove(g, row) ==
    IF g.drag_select_start # None /\ g.drag_select_button = Some(3)
    THEN LET at       == RowIndex(g, row)
             low      == IF at < 0 THEN 0 ELSE at
             file_idx == IF low >= Len(g.files) THEN Len(g.files) - 1 ELSE low
             start    == IF g.drag_select_start[1] < file_idx
                         THEN g.drag_select_start[1] ELSE file_idx
             end      == IF g.drag_select_start[1] < file_idx
                         THEN file_idx ELSE g.drag_select_start[1]
         IN  legacy_ensure_selected_visible(
                 [g EXCEPT !.selected_indices = start..end,
                           !.selected = file_idx])
    ELSE g

\* on_double_click
DoubleClick(f, g, row, fault) ==
    LET file_idx == RowIndex(g, row)
    IN  IF file_idx < 0 \/ file_idx >= Len(g.files) THEN {g}
        ELSE IF ItemAt(g.files, file_idx).is_dir
             THEN LegacyOpen(f, g,
                      Append(g.path, ItemAt(g.files, file_idx).name), fault)
             ELSE {[g EXCEPT !.selected = file_idx,
                             !.selected_indices = {file_idx},
                             !.last_selected = Some(file_idx)]}

\* One handler of the first interface's panel runs.
LegacyStep(next) ==
    /\ legacy.made
    /\ legacy' \in next
    /\ UNCHANGED <<engineVars, panel, returned>>

LegacyKeys ==
    {"space", "m", "up", "down", "right", "enter", "left", "backspace", "f1"}

ListFaults == {"none", "listdir", "stat"}

MouseRows == {0, 1, 3}

on_key(key, fault) ==
    /\ fault = "none" \/ key \in {"left", "backspace", "right", "enter"}
    /\ LegacyStep(LegacyKey(fs, legacy, key, fault))

on_mouse_down(row, ctrl, shift, button) ==
    LegacyStep({MouseDown(legacy, row, ctrl, shift, button)})

on_mouse_move(row) == LegacyStep({MouseMove(legacy, row)})

on_mouse_up(button) ==
    LegacyStep({IF button = 3
                THEN [legacy EXCEPT !.drag_select_start = None,
                                    !.drag_select_button = None]
                ELSE legacy})

on_double_click(row, fault) ==
    LegacyStep(DoubleClick(fs, legacy, row, fault))

\* action_toggle_hidden of the first interface, for the active panel.
action_toggle_hidden(fault) ==
    /\ legacy.active
    /\ LegacyStep(refresh_files(fs, [legacy EXCEPT !.show_hidden = ~@], fault))

\* refresh_files after an operation of the application.
refresh_after_operation(fault) == LegacyStep(refresh_files(fs, legacy, fault))

\* set_active_panel: this panel, or the other one.
set_active_panel(active) == LegacyStep({[legacy EXCEPT !.active = active]})

NextLegacy ==
    \/ \E key \in LegacyKeys, fault \in ListFaults : on_key(key, fault)
    \/ \E row \in MouseRows, ctrl \in BOOLEAN, shift \in BOOLEAN,
          button \in {1, 3} : on_mouse_down(row, ctrl, shift, button)
    \/ \E row \in MouseRows : on_mouse_move(row)
    \/ \E button \in {1, 3} : on_mouse_up(button)
    \/ \E row \in MouseRows, fault \in ListFaults : on_double_click(row, fault)
    \/ \E fault \in ListFaults : action_toggle_hidden(fault)
    \/ \E fault \in ListFaults : refresh_after_operation(fault)
    \/ \E active \in BOOLEAN : set_active_panel(active)

LegacyHeights == {4, 5}

InitLegacy ==
    /\ fs = PanelTree
    /\ sizeArgs = NoSizeArgs
    /\ panel = NoPanel
    /\ returned = NoReturn
    /\ legacy \in UNION {LegacyPanel(fs, path, hidden, active, height, fault) :
                            path \in {PanelRoot, Home}, hidden \in BOOLEAN,
                            active \in BOOLEAN, height \in LegacyHeights,
                            fault \in ListFaults}
    /\ UiIdle
    /\ InitManager

SpecLegacy == InitLegacy /\ [][NextLegacy]_vars


\* ---------------------------------------------------------------------
\* The directory sizes of the panel (ui/panels/file_panel.py).  Every await
\* of calculate_directory_sizes is a point where the coroutine can be
\* suspended and another handler of the panel can run.

\* The bytes of a set of files.
RECURSIVE FileBytes(_, _)
FileBytes(f, S) ==
    IF S = {} THEN 0
    ELSE LET q == CHOOSE x \in S : TRUE
         IN  f[q].data + FileBytes(f, S \ {q})

\* _calculate_directory_size: the sizes of the files path.rglob('*') finds.
_calculate_directory_size(f, path) ==
    FileBytes(f, {q \in Subtree(f, path) : q # path /\ IsFile(f, q)})

\* The directories the loop of calculate_directory_sizes visits: those of
\* the listing it was started on, '..' left out.
ScanTargets(p) ==
    LET dirs == SelectSeq(p.file_items,
                          LAMBDA it : it.is_dir /\ it.name # <<".", ".">>)
    IN  [j \in 1..Len(dirs) |-> dirs[j].path]

\* The scan state with a scan started, whatever the flag says.
ScanEnteredUnguarded(s, p) ==
    [s EXCEPT !.is_calculating = TRUE, !.calculated_sizes = <<>>,
              !.frames = Append(@, ScanTargets(p)), !.calls = @ + 1,
              !.noop = FALSE]

\* calculate_directory_sizes up to its loop: return at once when a scan
\* runs; else set the flag, clear the cache and start on the listing.
ScanEntered(s, p) ==
    IF s.is_calculating
    THEN [s EXCEPT !.calls = @ + 1, !.noop = TRUE]
    ELSE [s EXCEPT !.is_calculating = TRUE, !.calculated_sizes = <<>>,
                   !.frames = Append(@, ScanTargets(p)), !.calls = @ + 1,
                   !.noop = FALSE]

RemoveAt(seq, k) == SubSeq(seq, 1, k - 1) \o SubSeq(seq, k + 1, Len(seq))

\* One step of a scan runs on the mounted panel.
ScanStep(next) ==
    /\ panel.made
    /\ panel.mounted
    /\ scan' = next
    /\ UNCHANGED <<coreVars, panel, returned, legacy, app, cfg, second, ui, main>>

calculate_directory_sizes ==
    /\ scan.calls < MaxScanCalls
    /\ ScanStep(ScanEntered(scan, panel))

\* One round of the loop in the k-th running call: the size is cached, or
\* an exception skips the directory.
scan_directory(k, raised) ==
    /\ k \in 1..Len(scan.frames)
    /\ scan.frames[k] # <<>>
    /\ LET path == Head(scan.frames[k])
       IN  ScanStep([scan EXCEPT
               !.frames[k] = Tail(@),
               !.calculated_sizes =
                   IF raised THEN @
                   ELSE [q \in (DOMAIN @) \cup {path} |->
                            IF q = path
                            THEN _calculate_directory_size(fs, path)
                            ELSE @[q]],
               !.noop = FALSE])

\* The finally block of the k-th running call, reached at the end of the
\* loop or by an exception raised outside the inner try.
scan_ends(k, raised) ==
    /\ k \in 1..Len(scan.frames)
    /\ raised <=> scan.frames[k] # <<>>
    /\ ScanStep([scan EXCEPT !.frames = RemoveAt(@, k),
                             !.is_calculating = FALSE, !.noop = FALSE])

\* The user moves the panel elsewhere while a scan may be suspended.
scan_navigate == \E path \in {PanelRoot, Home} : navigate(path, "none")

NextScan ==
    \/ calculate_directory_sizes
    \/ \E k \in 1..MaxScanCalls, raised \in BOOLEAN : scan_directory(k, raised)
    \/ \E k \in 1..MaxScanCalls, raised \in BOOLEAN : scan_ends(k, raised)
    \/ scan_navigate

InitScan ==
    /\ fs = PanelTree
    /\ sizeArgs = NoSizeArgs
    /\ panel \in UNION {load_directory(fs, [FilePanel(c, 5) EXCEPT !.mounted = TRUE],
                                       None, "none") : c \in PanelConfigs}
    /\ returned = NoReturn
    /\ legacy = NoLegacy
    /\ scan = NoScan /\ app = NoApp /\ cfg = NoCfg /\ Untouched
    /\ InitManager

SpecScan == InitScan /\ [][NextScan]_vars


\* ---------------------------------------------------------------------
\* The first interface's application (main.py): the copy, move and delete
\* queues, the confirmation dialogs and the two panels' listings.  Each
\* panel stays in its directory; a directory holds plain files.

Sides == {"left", "right"}

Other(side) == IF side = "left" THEN "right" ELSE "left"

Ops == {"copy", "move", "delete"}

\* The file names of the two directories, in the order the panels list them.
NameOrder == <<"a", "b">>

AppNames == {NameOrder[j] : j \in 1..Len(NameOrder)}

\* The paths of the entries picked in a panel, in listing order:
\* [os.path.join(panel.path, panel.files[i]['name']) for i in sorted(indices)]
QueueOf(side, picked) ==
    LET names == SelectSeq(NameOrder, LAMBDA n : n \in picked)
    IN  [j \in 1..Len(names) |-> <<side, names[j]>>]

\* os.path.exists
ExistsOn(disk, path) == path[2] \in disk[path[1]]

\* _do_copy: copy2 over whatever is there; every exception is swallowed
\* (the source is gone, source and destination are the same file).
_do_copy(disk, src_path, dst_path) ==
    IF ExistsOn(disk, src_path) /\ src_path # dst_path
    THEN [disk EXCEPT ![dst_path[1]] = @ \cup {dst_path[2]}]
    ELSE disk

\* _do_move: shutil.move, exceptions swallowed.
_do_move(disk, src_path, dst_path) ==
    IF ExistsOn(disk, src_path) /\ src_path # dst_path
    THEN [disk EXCEPT ![src_path[1]] = @ \ {src_path[2]},
                      ![dst_path[1]] = (@ \ {src_path[2]}) \cup {dst_path[2]}]
    ELSE disk

\* os.remove, exceptions swallowed.
DoDelete(disk, path) == [disk EXCEPT ![path[1]] = @ \ {path[2]}]

Transfer(op, disk, src_path, dst_path) ==
    IF op = "copy" THEN _do_copy(disk, src_path, dst_path)
    ELSE _do_move(disk, src_path, dst_path)

\* FileManagerApp.__init__ and on_mount: both panels list their directory,
\* no queue and no dialog exist.
FileManagerApp(disk, active) ==
    [made |-> TRUE, disk |-> disk, shown |-> disk, active_panel |-> active,
     queue |-> [op \in Ops |-> None],
     src_panel |-> [op \in Ops |-> "left"],
     dst_panel |-> [op \in Ops |-> "right"],
     pending |-> [op \in Ops |-> None],
     dialog |-> None, orphans |-> 0, actions |-> 0]

\* mount(dialog); self.dialog = dialog: a dialog that self.dialog named
\* before stays on the screen with nothing naming it.
MountDialog(a, op) ==
    [a EXCEPT !.orphans = IF a.dialog # None THEN @ + 1 ELSE @,
              !.dialog = Some(op)]

\* panel.refresh_files() of the given panels
RefreshPanels(a, sides) ==
    [a EXCEPT !.shown = [s \in Sides |-> IF s \in sides THEN a.disk[s] ELSE @[s]]]

\* _process_copy_queue and _process_move_queue: items are taken from the
\* queue until one finds its destination present (a dialog is mounted and
\* the method returns) or the queue is empty or None (both panels are
\* refreshed, the queue becomes None).
RECURSIVE _process_queue(_, _)
_process_queue(a, op) ==
    LET q == IF a.queue[op] = None THEN <<>> ELSE a.queue[op][1]
    IN  IF q = <<>>
        THEN [RefreshPanels(a, {a.src_panel[op], a.dst_panel[op]})
                 EXCEPT !.queue[op] = None]
        ELSE LET src_path == Head(q)
                 dst_path == <<a.dst_panel[op], src_path[2]>>
                 popped == [a EXCEPT !.queue[op] = Some(Tail(q))]
             IN  IF ExistsOn(a.disk, dst_path)
                 THEN [MountDialog(popped, op) EXCEPT
                          !.pending[op] = Some(<<src_path, dst_path>>)]
                 ELSE _process_queue(
                          [popped EXCEPT !.disk = Transfer(op, @, src_path, dst_path)],
                          op)

\* _process_delete_queue: a dialog for the first item, or the refresh.
_process_delete_queue(a) ==
    LET q == IF a.queue["delete"] = None THEN <<>> ELSE a.queue["delete"][1]
    IN  IF q = <<>>
        THEN [RefreshPanels(a, {a.src_panel["delete"]})
                 EXCEPT !.queue["delete"] = None]
        ELSE [MountDialog(a, "delete") EXCEPT
                 !.queue["delete"] = Some(Tail(q)),
                 !.pending["delete"] = Some(<<Head(q), Head(q)>>)]

\* action_copy, action_move and action_delete on the entries picked in the
\* active panel: the queue, the panels (and _copy_overwrite_all, which is
\* never set to True) are assigned with no look at what is under way.
StartQueue(a, op, picked) ==
    LET started ==
            [a EXCEPT !.queue[op] = Some(QueueOf(a.active_panel, picked)),
                      !.src_panel[op] = a.active_panel,
                      !.dst_panel[op] = IF op = "delete" THEN a.active_panel
                                        ELSE Other(a.active_panel),
                      !.actions = @ + 1]
    IN  IF op = "delete" THEN _process_delete_queue(started)
        ELSE _process_queue(started, op)

\* on_dialog_confirm_result: without self.dialog nothing; else the pending
\* copy item first, then the pending move item, then the pending delete
\* path; self.dialog is removed and the queue is taken up again.  (The
\* branches for pending_copy and pending_move, which nothing sets, and the
\* second one for pending_delete_path are never reached.)
on_dialog_confirm_result_(a, result) ==
    LET answered(op) ==
            LET src_path == a.pending[op][1][1]
                dst_path == a.pending[op][1][2]
            IN  [a EXCEPT
                    !.disk = IF result # "yes" THEN @
                             ELSE IF op = "delete" THEN DoDelete(@, src_path)
                             ELSE Transfer(op, @, src_path, dst_path),
                    !.queue[op] = IF result = "cancel" /\ op # "delete"
                                  THEN Some(<<>>) ELSE @,
                    !.pending[op] = None,
                    !.dialog = None]
    IN  IF a.dialog = None THEN a
        ELSE IF a.pending["copy"] # None
        THEN _process_queue(answered("copy"), "copy")
        ELSE IF a.pending["move"] # None
        THEN _process_queue(answered("move"), "move")
        ELSE IF a.pending["delete"] # None
        THEN _process_delete_queue(answered("delete"))
        ELSE [a EXCEPT !.dialog = None]

\* One handler of the application runs.
AppStep(next) ==
    /\ app.made
    /\ app' = next
    /\ UNCHANGED <<coreVars, panel, returned, legacy, scan, cfg, second, ui, main>>

\* f5, f6, f8: the bindings of the application, live whatever has the focus.
action_copy(picked) ==
    /\ app.actions < MaxAppActions
    /\ picked # {} /\ picked \subseteq app.shown[app.active_panel]
    /\ AppStep(StartQueue(app, "copy", picked))

action_move(picked) ==
    /\ app.actions < MaxAppActions
    /\ picked # {} /\ picked \subseteq app.shown[app.active_panel]
    /\ AppStep(StartQueue(app, "move", picked))

action_delete(picked) ==
    /\ app.actions < MaxAppActions
    /\ picked # {} /\ picked \subseteq app.shown[app.active_panel]
    /\ AppStep(StartQueue(app, "delete", picked))

\* A dialog on the screen posts its Result.
on_dialog_confirm_result(result) ==
    /\ app.dialog # None \/ app.orphans > 0
    /\ AppStep(on_dialog_confirm_result_(app, result))

\* tab
action_switch_panel ==
    AppStep([app EXCEPT !.active_panel = Other(@)])

\* f9: the active panel lists its directory again.
app_toggle_hidden == AppStep(RefreshPanels(app, {app.active_panel}))

NextApp ==
    \/ \E picked \in SUBSET AppNames : action_copy(picked)
    \/ \E picked \in SUBSET AppNames : action_move(picked)
    \/ \E picked \in SUBSET AppNames : action_delete(picked)
    \/ \E result \in {"yes", "no", "cancel"} : on_dialog_confirm_result(result)
    \/ action_switch_panel
    \/ app_toggle_hidden

InitApp ==
    /\ fs = PanelTree
    /\ sizeArgs = NoSizeArgs
    /\ panel = NoPanel /\ returned = NoReturn /\ legacy = NoLegacy
    /\ scan = NoScan /\ cfg = NoCfg /\ Untouched
    /\ app \in {FileManagerApp(disk, "left") :
                   disk \in [Sides -> SUBSET AppNames]}
    /\ InitManager

SpecApp == InitApp /\ [][NextApp]_vars


\* ---------------------------------------------------------------------
\* The configuration (core/config_manager.py, models/config.py).  A panel
\* path is "home", or "d", a directory that can be deleted; of the two
\* PanelConfig the left one is kept, of its fields the path.

\* data.get(key, default) on a parsed JSON object
Get(data, key, default) == IF key \in DOMAIN data THEN data[key] ELSE default

\* AppConfig.__post_init__
__post_init__(c, dirs) ==
    [c EXCEPT !.active_panel = IF @ \in {"left", "right"} THEN @ ELSE "left",
              !.left_panel = IF @ \in dirs THEN @ ELSE "home"]

\* AppConfig.from_dict: absent keys take their defaults, window_size
\* becomes a tuple, the constructor validates.
from_dict(data, dirs) ==
    __post_init__([left_panel   |-> Get(data, "left_panel", "home"),
                   active_panel |-> Get(data, "active_panel", "left"),
                   language     |-> Get(data, "language", "en"),
                   window_size  |-> "tuple"], dirs)

\* AppConfig.to_dict: paths as strings, window_size as a list.
to_dict(c) ==
    [left_panel |-> c.left_panel, active_panel |-> c.active_panel,
     language |-> c.language, window_size |-> "list"]

\* DEFAULT_CONFIG
DEFAULT_CONFIG ==
    [left_panel |-> "home", active_panel |-> "left", language |-> "en",
     window_size |-> "tuple"]

\* What a file holds: text that json.load rejects, JSON that is no object,
\* or a JSON object.
Garbage == [kind |-> "garbage", data |-> <<>>]

JsonList == [kind |-> "list", data |-> <<>>]

JsonObject(data) == [kind |-> "object", data |-> data]

NoCall == [op |-> "none", ret |-> None, raised |-> FALSE, before |-> "none",
           fault |-> FALSE, wrote |-> FALSE]

Call(op, ret, before, fault, wrote) ==
    [op |-> op, ret |-> ret, raised |-> FALSE, before |-> before,
     fault |-> fault, wrote |-> wrote]

KindOf(files, name) == IF name \in DOMAIN files THEN files[name].kind ELSE "missing"

\* ConfigManager.__init__
ConfigManager(files, dirs) ==
    [made |-> TRUE, files |-> files, dirs |-> dirs, _config |-> None,
     written |-> None, snap |-> None, last |-> NoCall]

\* save_config: False with no configuration and when the write raises;
\* else the file holds the configuration's to_dict.
SaveConfig(c, fault) ==
    IF c._config = None \/ fault THEN [ok |-> FALSE, cfg |-> c]
    ELSE [ok |-> TRUE,
          cfg |-> [c EXCEPT !.files = [n \in (DOMAIN @) \cup {"config"} |->
                                          IF n = "config"
                                          THEN JsonObject(to_dict(c._config[1]))
                                          ELSE @[n]],
                            !.written = c._config]]

\* load_config that lets the exceptions of json.load and from_dict out.
LoadConfigStrict(c, fault) ==
    IF "config" \in DOMAIN c.files
    THEN IF c.files["config"].kind = "object"
         THEN [raised |-> FALSE,
               cfg |-> [c EXCEPT !._config =
                           Some(from_dict(c.files["config"].data, c.dirs))]]
         ELSE [raised |-> TRUE, cfg |-> c]
    ELSE [raised |-> FALSE,
          cfg |-> SaveConfig([c EXCEPT !._config =
                                 Some(from_dict(DEFAULT_CONFIG, c.dirs))],
                             fault).cfg]

\* load_config: the file's configuration; the default one when the file is
\* no JSON (JSONDecodeError) or no JSON object (AttributeError, caught as
\* Exception); the default one, saved, when there is no file.
LoadConfig(c, fault) ==
    IF "config" \in DOMAIN c.files
    THEN [raised |-> FALSE,
          cfg |-> [c EXCEPT !._config =
                      IF c.files["config"].kind = "object"
                      THEN Some(from_dict(c.files["config"].data, c.dirs))
                      ELSE Some(from_dict(DEFAULT_CONFIG, c.dirs))]]
    ELSE [raised |-> FALSE,
          cfg |-> SaveConfig([c EXCEPT !._config =
                                 Some(from_dict(DEFAULT_CONFIG, c.dirs))],
                             fault).cfg]

\* backup_config: shutil.copy2 of the configuration file, if there is one.
BackupConfig(c, fault) ==
    IF "config" \in DOMAIN c.files /\ ~fault
    THEN [ok |-> TRUE,
          cfg |-> [c EXCEPT !.files = [n \in (DOMAIN @) \cup {"backup"} |->
                                          IF n = "backup" THEN @["config"]
                                          ELSE @[n]],
                            !.snap = c.written]]
    ELSE [ok |-> FALSE, cfg |-> c]

\* restore_from_backup that keeps the configuration it has in memory.
RestoreKeepsConfig(c, fault) ==
    IF "backup" \in DOMAIN c.files /\ ~fault
    THEN [ok |-> TRUE,
          cfg |-> [c EXCEPT !.files = [n \in (DOMAIN @) \cup {"config"} |->
                                          IF n = "config" THEN @["backup"]
                                          ELSE @[n]],
                            !.written = c.snap]]
    ELSE [ok |-> FALSE, cfg |-> c]

\* restore_from_backup: the backup is copied over the configuration file
\* and the configuration is loaded again.
RestoreFromBackup(c, fault) ==
    IF "backup" \in DOMAIN c.files /\ ~fault
    THEN [ok |-> TRUE,
          cfg |-> LoadConfig(
                      [c EXCEPT !.files = [n \in (DOMAIN @) \cup {"config"} |->
                                              IF n = "config" THEN @["backup"]
                                              ELSE @[n]],
                                !.written = c.snap,
                                !._config = None],
                      FALSE).cfg]
    ELSE [ok |-> FALSE, cfg |-> c]

\* One method of the manager is called.
CfgStep(next, call) ==
    /\ cfg.made
    /\ cfg' = [next EXCEPT !.last = call]
    /\ UNCHANGED <<coreVars, panel, returned, legacy, scan, app, second, ui, main>>

load_config(fault) ==
    LET r == LoadConfig(cfg, fault)
    IN  CfgStep(r.cfg, [Call("load", r.cfg._config, KindOf(cfg.files, "config"),
                             fault, r.cfg.files # cfg.files)
                           EXCEPT !.raised = r.raised])

save_config(fault) ==
    LET r == SaveConfig(cfg, fault)
    IN  CfgStep(r.cfg, Call("save", Some(r.ok), KindOf(cfg.files, "config"),
                            fault, r.cfg.files # cfg.files))

get_config(fault) ==
    LET c == IF cfg._config = None THEN LoadConfig(cfg, fault).cfg ELSE cfg
    IN  CfgStep(c, Call("get", c._config, KindOf(cfg.files, "config"),
                        fault, c.files # cfg.files))

\* update_config(key=value) for a known attribute: load if need be, set,
\* validate, save.
update_config(key, value, fault) ==
    LET c == IF cfg._config = None THEN LoadConfig(cfg, fault).cfg ELSE cfg
        set == [c EXCEPT !._config =
                   Some(__post_init__([c._config[1] EXCEPT ![key] = value],
                                      c.dirs))]
        r == SaveConfig(set, fault)
    IN  CfgStep(r.cfg, Call("update", None, KindOf(cfg.files, "config"),
                            fault, r.cfg.files # cfg.files))

\* The caller assigns an attribute of the AppConfig it was handed
\* (config.language = 'ru'; save_state_to_config for the panel paths).
set_attribute(key, value) ==
    /\ cfg._config # None
    /\ CfgStep([cfg EXCEPT !._config = Some([cfg._config[1] EXCEPT ![key] = value])],
               Call("set", None, KindOf(cfg.files, "config"), FALSE, FALSE))

reset_to_defaults(fault) ==
    LET r == SaveConfig([cfg EXCEPT !._config =
                            Some(from_dict(DEFAULT_CONFIG, cfg.dirs))], fault)
    IN  CfgStep(r.cfg, Call("reset", None, KindOf(cfg.files, "config"),
                            fault, r.cfg.files # cfg.files))

backup_config(fault) ==
    LET r == BackupConfig(cfg, fault)
    IN  CfgStep(r.cfg, Call("backup", Some(r.ok), KindOf(cfg.files, "config"),
                            fault, r.cfg.files # cfg.files))

restore_from_backup(fault) ==
    LET r == RestoreFromBackup(cfg, fault)
    IN  CfgStep(r.cfg, Call("restore", Some(r.ok), KindOf(cfg.files, "backup"),
                            fault, r.cfg.files # cfg.files))

\* The directory d is deleted (by the file manager itself, for one).
directory_deleted ==
    /\ "d" \in cfg.dirs
    /\ CfgStep([cfg EXCEPT !.dirs = @ \ {"d"}],
               Call("rmdir", None, KindOf(cfg.files, "config"), FALSE, FALSE))

\* The attributes a caller sets and the values it gives them.
ConfigValues ==
    {<<"language", "en">>, <<"language", "ru">>,
     <<"active_panel", "left">>, <<"active_panel", "right">>,
     <<"left_panel", "home">>, <<"left_panel", "d">>}

\* The configuration files a manager can find.
ConfigFiles ==
    {<<>>,
     [n \in {"config"} |-> Garbage],
     [n \in {"config"} |-> JsonList],
     [n \in {"config"} |-> JsonObject(<<>>)],
     [n \in {"config"} |-> JsonObject([language |-> "ru", active_panel |-> "mid"])],
     [n \in {"config"} |-> JsonObject([left_panel |-> "d", active_panel |-> "right",
                                       language |-> "ru", window_size |-> "list"])]}

NextConfig ==
    \/ \E fault \in BOOLEAN : load_config(fault)
    \/ \E fault \in BOOLEAN : save_config(fault)
    \/ \E fault \in BOOLEAN : get_config(fault)
    \/ \E kv \in ConfigValues, fault \in BOOLEAN : update_config(kv[1], kv[2], fault)
    \/ \E kv \in ConfigValues : set_attribute(kv[1], kv[2])
    \/ \E fault \in BOOLEAN : reset_to_defaults(fault)
    \/ \E fault \in BOOLEAN : backup_config(fault)
    \/ \E fault \in BOOLEAN : restore_from_backup(fault)
    \/ directory_deleted

InitConfig ==
    /\ fs = PanelTree
    /\ sizeArgs = NoSizeArgs
    /\ panel = NoPanel /\ returned = NoReturn /\ legacy = NoLegacy
    /\ scan = NoScan /\ app = NoApp /\ Untouched
    /\ cfg \in {ConfigManager(files, dirs) :
                   files \in ConfigFiles, dirs \in {{"home"}, {"home", "d"}}}
    /\ InitManager

SpecConfig == InitConfig /\ [][NextConfig]_vars


\* ------------------------------------------------- overlapping batch calls

\* The size of the second call's item list.
MaxSecondItems == 2

\* delete_items called a second time on the same manager while the first batch
\* is suspended in its conflict resolver, the only point at which another
\* coroutine runs.  Its entry resets the manager's one flag.  Its items are no
\* longer on disk: each removal raises and is recorded as an error result.
second_delete_items(n) ==
    /\ pc = "resolving"
    /\ second.pc = "none"
    /\ _cancelled' = CancelledAtEntry
    /\ second' = [pc |-> "loop", i |-> 1, n |-> n]
    /\ UNCHANGED <<fs, conflict_resolver, _progress_callback, cancelSeen,
                   batchVars, dirVars, roundTrip, sizeVars, panel, returned,
                   legacy, scan, app, cfg, ui, main>>

\* One iteration of the second call's loop: the flag test at its head, then
\* the item.
second_item ==
    /\ second.pc = "loop"
    /\ second.i <= second.n
    /\ ~LoopBreaks(_cancelled)
    /\ second' = [second EXCEPT !.i = @ + 1]
    /\ UNCHANGED <<coreVars, panel, returned, legacy, scan, app, cfg, ui, main>>

\* The second call returns: its list is done or its loop broke on the flag.
second_return ==
    /\ second.pc = "loop"
    /\ second.i > second.n \/ LoopBreaks(_cancelled)
    /\ second' = [second EXCEPT !.pc = IF second.i > second.n THEN "done"
                                      ELSE "stopped"]
    /\ UNCHANGED <<coreVars, panel, returned, legacy, scan, app, cfg, ui, main>>

\* The first batch does not run while the second call's loop does: that loop
\* has no suspension point.  cancel_operation can come at any time.
NextOverlap ==
    \/ second.pc # "loop" /\ Next
    \/ cancel_operation
    \/ \E n \in 1..MaxSecondItems : second_delete_items(n)
    \/ second_item
    \/ second_return

SpecOverlap == Init /\ [][NextOverlap]_vars


\* ------------------------------------------- MainUI: copy, move, delete

\* What a confirmation dialog hands back: a button or key ("yes", "no",
\* "cancel"), or nothing when it is dismissed without a result.
DialogResults == {"yes", "no", "cancel", "None"}

\* An answer that counts as confirmed whenever the dialog returned anything.
ConfirmsAnyResult(result) == result # "None"

\* _show_confirm_dialog: "is_confirmed = result == 'yes'".
_show_confirm_dialog(result) == result = "yes"

\* The panels a handler reloads after its engine call: copy the inactive one,
\* move both, delete the active one.
ReloadedBy(op) ==
    CASE op = "copy" -> {"inactive"}
      [] op = "move" -> {"active", "inactive"}
      [] OTHER -> {"active"}

\* A handler up to its dialog: it returns at once on an empty selection,
\* otherwise it shows the dialog and waits.
Selected(op, its) ==
    /\ ui.pc \in {"idle", "returned"}
    /\ pc = "idle"
    /\ batches < MaxBatches
    /\ ui' = [pc |-> IF its = <<>> THEN "returned" ELSE "dialog",
              op |-> op, selected_items |-> its, result |-> "none",
              before |-> batches, fs0 |-> fs, reloaded |-> {}]
    /\ UNCHANGED <<coreVars, panel, returned, legacy, scan, app, cfg, second, main>>

copy_selected == \E its \in ItemLists : Selected("copy", its)

move_selected == \E its \in ItemLists : Selected("move", its)

delete_selected == \E its \in ItemLists : Selected("delete", its)

\* The dialog is over: the handler goes on to the engine if the answer
\* counts as confirmed, and returns otherwise.
dialog_dismissed(result) ==
    /\ ui.pc = "dialog"
    /\ ui' = [ui EXCEPT !.result = result,
                        !.pc = IF _show_confirm_dialog(result) THEN "confirmed"
                               ELSE "returned"]
    /\ UNCHANGED <<coreVars, panel, returned, legacy, scan, app, cfg, second, main>>

\* "await self.file_operations.copy_items(...)" and its siblings.
engine_call ==
    /\ ui.pc = "confirmed"
    /\ batches = ui.before
    /\ StartBatch(ui.op, ui.selected_items,
                  IF ui.op = "delete" THEN EmptyPath ELSE <<NameD>>)

\* The engine returned: reload_content on the panels of the operation.
reload_panels ==
    /\ ui.pc = "confirmed"
    /\ batches > ui.before
    /\ pc = "idle"
    /\ ui' = [ui EXCEPT !.pc = "returned", !.reloaded = ReloadedBy(ui.op)]
    /\ UNCHANGED <<coreVars, panel, returned, legacy, scan, app, cfg, second, main>>

NextUi ==
    \/ copy_selected
    \/ move_selected
    \/ delete_selected
    \/ \E result \in DialogResults : dialog_dismissed(result)
    \/ engine_call
    \/ reload_panels
    \/ set_progress_callback
    \/ cancel_operation
    \/ ReturnResults
    \/ BeginItem
    \/ CheckConflict
    \/ \E resolution \in Resolutions : Resolve(resolution)
    \/ \E ioFail \in BOOLEAN : Execute(ioFail)
    \/ \E ioFail \in BOOLEAN : DeleteItem(ioFail)

SpecUi == Init /\ [][NextUi]_vars


\* ------------------------------ main.py: the two panels and active_panel

\* What config.json can hold under 'active_panel': one of the two names, or
\* any other value, which "top" stands for.
PersistedActive == {"left", "right", "top"}

\* FileManagerApp.__init__: the left panel is built active, the right one
\* inactive, and active_panel is taken from the file as it is.
MainApps(persisted) ==
    {[made |-> TRUE, mounted |-> FALSE, active_panel |-> persisted,
      panels |-> [s \in Sides |-> IF s = "left" THEN l ELSE r]] :
        l \in LegacyPanel(PanelTree, PanelRoot, FALSE, TRUE, 5, "none"),
        r \in LegacyPanel(PanelTree, PanelRoot, TRUE, FALSE, 5, "none")}

\* set_active_panel of the application
SetActivePanel(m, panel_name) ==
    [m EXCEPT !.active_panel = panel_name,
              !.panels = [s \in Sides |->
                             [m.panels[s] EXCEPT !.active = (panel_name = s)]]]

\* The panel that the application's on_key hands a key to.
KeyTarget(m) == IF m.active_panel = "left" THEN "left" ELSE "right"

\* One handler of the application runs.
MainStep(next) ==
    /\ main.made
    /\ main' \in next
    /\ UNCHANGED <<coreVars, panel, returned, legacy, scan, app, cfg, second, ui>>

main_on_mount ==
    /\ ~main.mounted
    /\ MainStep({[SetActivePanel(main, main.active_panel)
                     EXCEPT !.mounted = TRUE]})

main_switch_panel ==
    /\ main.mounted
    /\ MainStep({SetActivePanel(main, Other(KeyTarget(main)))})

\* on_key of the application: arrow keys go to the panel of active_panel.
main_on_key(key) ==
    /\ main.mounted
    /\ MainStep({[main EXCEPT !.panels[KeyTarget(main)] = g] :
                    g \in LegacyKey(fs, main.panels[KeyTarget(main)], key, "none")})

\* on_mouse_down of a panel: a click on a file makes that panel the active
\* one and the other one inactive.
main_on_mouse_down(side, row, ctrl) ==
    /\ main.mounted
    /\ LET g == main.panels[side]
           file_idx == RowIndex(g, row)
       IN  MainStep({IF file_idx < 0 \/ file_idx >= Len(g.files) THEN main
                     ELSE SetActivePanel(
                              [main EXCEPT !.panels[side] =
                                  MouseDown(g, row, ctrl, FALSE, 1)], side)})

NextMain ==
    \/ main_on_mount
    \/ main_switch_panel
    \/ \E key \in {"up", "down", "space"} : main_on_key(key)
    \/ \E side \in Sides, row \in MouseRows, ctrl \in BOOLEAN :
          main_on_mouse_down(side, row, ctrl)

InitMain ==
    /\ fs = PanelTree
    /\ sizeArgs = NoSizeArgs
    /\ panel = NoPanel /\ returned = NoReturn /\ legacy = NoLegacy
    /\ scan = NoScan /\ app = NoApp /\ cfg = NoCfg
    /\ second = NoSecond /\ ui = NoUi
    /\ main \in UNION {MainApps(persisted) : persisted \in PersistedActive}
    /\ InitManager

SpecMain == InitMain /\ [][NextMain]_vars


\* ----------------------------------------------------------------- claims

Terminal == {"success", "skipped", "error"}

\* A batch call has returned: results is the returned list.
BatchReturned == pc = "idle" /\ batches > 0

\* An item is between its start and its result.
MidItem == pc \in {"started", "resolving", "execute"}

\* C1: a copy/move/delete batch never holds more results than items, result j
\* is the terminal result of item j, and a batch that broke out of its loop at
\* item k (the resolver answered 'cancel' for it, or the flag was found set
\* before it started) returns exactly the results of the items before k.
C1_CancelKeepsProcessedPrefix ==
    /\ Len(results) <= Len(items)
    /\ BatchReturned =>
          /\ \A j \in 1..Len(results) :
                /\ results[j].source = items[j].path
                /\ results[j].result \in Terminal
          /\ stoppedAt # 0 => Len(results) = stoppedAt - 1

\* C1 witness: a two-item batch whose resolver answered 'cancel' for the
\* second item returned one result.
C1_Witness ==
    /\ BatchReturned
    /\ Len(items) = 2
    /\ stoppedAt = 2
    /\ Len(itemLog) = 2
    /\ itemLog[2].resolution = "cancel"
    /\ Len(results) = 1

\* C2: an item whose primitive raised is recorded as error with a non-empty
\* message, and a batch that nobody cancelled returns one result per item,
\* whatever failed on the way.
C2_PerItemIsolation ==
    /\ \A j \in 1..Len(results) :
          itemLog[j].primitive = "raised" =>
              /\ results[j].result = "error"
              /\ results[j].error_message # None
              /\ results[j].error_message[1] # ""
    /\ (BatchReturned /\ ~cancelSeen) =>
          /\ Len(results) = Len(items)
          /\ stoppedAt = 0

\* C2 witness: a returned two-item batch whose first item failed and whose
\* second item succeeded.
C2_Witness ==
    /\ BatchReturned
    /\ ~cancelSeen
    /\ Len(results) = 2
    /\ results[1].result = "error"
    /\ itemLog[1].primitive = "raised"
    /\ results[2].result = "success"

\* C3: while a batch runs with the flag set, no step starts an item or emits
\* a progress snapshot; the resolver is called and the filesystem changes
\* only for the item already started; and that item is not abandoned: it
\* leaves the loop with its terminal result appended, unless its own
\* resolver answer is 'cancel'.
C3_NoItemStartsAfterCancel ==
    [][(_cancelled /\ pc # "idle") =>
          /\ Len(itemLog') = Len(itemLog)
          /\ progressLog' = progressLog
          /\ resolverLog' # resolverLog =>
                /\ MidItem
                /\ resolverLog'[Len(resolverLog')].index =
                       itemLog[Len(itemLog)].index
          /\ fs' # fs => MidItem
          /\ (MidItem /\ pc' = "idle") =>
                (pc = "resolving" /\ itemLog'[Len(itemLog')].resolution = "cancel")
          /\ (MidItem /\ pc' = "loop") =>
                /\ Len(results') = Len(results) + 1
                /\ results'[Len(results')].source = items[i].path
                /\ results'[Len(results')].result \in Terminal
                /\ (results'[Len(results')].result = "success")
                      = (itemLog'[Len(itemLog')].primitive = "returned")
      ]_vars

\* C3 witness: the flag is set while the first of two items is about to run
\* its primitive.
C3_Witness ==
    /\ _cancelled
    /\ pc = "execute"
    /\ i = 1
    /\ Len(items) = 2

\* C4: a batch called with the flag set (left by a cancelled batch, or set
\* while no batch ran) runs with the flag cleared for as long as nobody
\* cancels it, and then returns one result per item.
C4_CancellationDoesNotLeak ==
    (batches > 0 /\ flagAtEntry /\ ~cancelSeen) =>
        /\ pc # "idle" => ~_cancelled
        /\ pc = "idle" => (Len(results) = Len(items) /\ stoppedAt = 0)

\* C4 witness: the second batch was called with the flag set and returned
\* both of its results.
C4_Witness ==
    /\ batches = 2
    /\ flagAtEntry
    /\ ~cancelSeen
    /\ pc = "idle"
    /\ Len(items) = 2
    /\ Len(results) = 2

\* C5: the resolver calls of a batch are for strictly increasing item
\* indices (at most one per item, in input order), each for the item's own
\* source and destination_dir/item.name, which existed when the item was
\* reached.
C5_ResolverOncePerCollidingItem ==
    \A k \in 1..Len(resolverLog) :
        LET j == resolverLog[k].index
        IN  /\ j \in 1..Len(itemLog)
            /\ k > 1 => resolverLog[k - 1].index < j
            /\ resolverLog[k].source = items[j].path
            /\ resolverLog[k].destination = destination_dir \o <<items[j].name>>
            /\ itemLog[j].existed
            /\ Exists(itemLog[j].fsBefore, resolverLog[k].destination)

\* C5 witness: a returned batch that called the resolver for both of its
\* items, the first answered 'rename'.
C5_Witness ==
    /\ BatchReturned
    /\ Len(resolverLog) = 2
    /\ itemLog[1].resolution = "rename"
    /\ Len(results) = 2


\* The part of filesystem f at and below path p.
TreeAt(f, p) == Restrict(f, Subtree(f, p))

\* The number of results of the running or returned batch with result r.
CountResults(r) == Cardinality({j \in 1..Len(results) : results[j].result = r})

\* Every answer the resolver gave in this batch was 'skip'.
OnlySkipAnswers ==
    \A j \in 1..Len(itemLog) : itemLog[j].resolution \in {"none", "skip"}

\* No primitive of this batch raised.
NoPrimitiveRaised ==
    \A j \in 1..Len(itemLog) : itemLog[j].primitive # "raised"

\* C6: in a copy/move batch whose resolver answers 'skip' every time, item j
\* is skipped exactly when its destination existed when it was reached, and
\* otherwise succeeds unless its primitive raised; a skipped item's source
\* and destination are as they were when the batch was called; the batch
\* returns one result per item unless it is cancelled; and when no primitive
\* raised the destination directory has gained as many entries as there are
\* success results.
C6_SkipLeavesCollidingItems ==
    (batches > 0 /\ operation_type \in {"copy", "move"} /\ conflict_resolver
     /\ OnlySkipAnswers) =>
        /\ \A j \in 1..Len(results) :
              /\ (results[j].result = "skipped") = itemLog[j].existed
              /\ (~itemLog[j].existed /\ itemLog[j].primitive = "returned") =>
                    results[j].result = "success"
              /\ results[j].result = "skipped" =>
                    /\ TreeAt(fs, results[j].source)
                          = TreeAt(fsAtEntry, results[j].source)
                    /\ TreeAt(fs, results[j].destination)
                          = TreeAt(fsAtEntry, results[j].destination)
                    /\ Exists(fs, results[j].destination)
        /\ NoPrimitiveRaised =>
              Cardinality(Children(fs, destination_dir)
                          \ Children(fsAtEntry, destination_dir))
                 = CountResults("success")
        /\ (pc = "idle" /\ ~cancelSeen) => Len(results) = Len(items)

\* C6 witness: a returned two-item copy whose first item was new in the
\* destination and whose second item collided and was skipped.
C6_Witness ==
    /\ BatchReturned
    /\ operation_type = "copy"
    /\ conflict_resolver
    /\ OnlySkipAnswers
    /\ NoPrimitiveRaised
    /\ Len(results) = 2
    /\ results[1].result = "success"
    /\ results[2].result = "skipped"
    /\ itemLog[2].resolution = "skip"

\* The destination recorded for item j of the running or returned batch.
RecordedDestination(j) ==
    IF j <= Len(results) THEN results[j].destination
    ELSE operation_item.destination

\* C7: an item whose resolver answer was 'rename' has as its recorded
\* destination "stem (N)suffix" beside the colliding path P, for the smallest
\* N >= 1 whose name did not exist at decision time; that path did not exist
\* then.
C7_RenamePicksSmallestFreeNumber ==
    \A j \in 1..Len(itemLog) :
        itemLog[j].resolution = "rename" =>
            LET P      == destination_dir \o <<items[j].name>>
                f0     == itemLog[j].fsBefore
                stem   == PathStem(items[j].name)
                suffix == PathSuffix(items[j].name)
                Numbered(n) ==
                    destination_dir
                    \o <<stem \o <<" ", "(">> \o Decimal(n) \o <<")">> \o suffix>>
            IN  /\ stem \o suffix = items[j].name
                /\ ~Exists(f0, RecordedDestination(j))
                /\ \E n \in 1..(Cardinality(DOMAIN f0) + 1) :
                      /\ RecordedDestination(j) = Numbered(n)
                      /\ \A m \in 1..(n - 1) : Exists(f0, Numbered(m))
                /\ (pc = "execute" /\ j = Len(itemLog)) =>
                      destination = RecordedDestination(j)

\* C7 witness: a.t was copied under the name "a (2).t", because a.t and
\* "a (1).t" both existed.
C7_Witness ==
    /\ Len(results) >= 1
    /\ itemLog[1].resolution = "rename"
    /\ Exists(itemLog[1].fsBefore, <<NameD, NameA1>>)
    /\ results[1].destination =
           <<NameD, <<"a", " ", "(", "2", ")", ".", "t">> >>
    /\ results[1].result = "success"
    /\ Exists(fs, results[1].destination)

\* C8: when the last item done was answered 'overwrite' for a destination
\* that existed as a directory, and it succeeded, every entry below its
\* source is at the same relative path below the destination, and every
\* entry the destination had that the source has not is still there.
C8_OverwriteMergesDirectory ==
    LET j == Len(results)
    IN  (/\ j > 0
         /\ operation_type \in {"copy", "move"}
         /\ itemLog[j].resolution = "overwrite"
         /\ results[j].result = "success"
         /\ IsDir(itemLog[j].fsBefore, results[j].destination)) =>
            LET f0  == itemLog[j].fsBefore
                src == results[j].source
                dst == results[j].destination
            IN  /\ \A q \in Subtree(f0, src) \ {src} :
                      /\ Exists(fs, Rebase(q, src, dst))
                      /\ fs[Rebase(q, src, dst)] = f0[q]
                /\ \A q \in Subtree(f0, dst) \ {dst} :
                      ~Exists(f0, Rebase(q, dst, src)) =>
                          (Exists(fs, q) /\ fs[q] = f0[q])

\* C8 for copy alone.
C8_CopyOverwriteMergesDirectory ==
    operation_type = "copy" => C8_OverwriteMergesDirectory


\* The reserved device names: CON, PRN, AUX, NUL, COM1-9, LPT1-9.
DeviceNames ==
    {<<"C", "O", "N">>, <<"P", "R", "N">>, <<"A", "U", "X">>, <<"N", "U", "L">>}
    \cup {<<"C", "O", "M", DigitChars[n + 1]>> : n \in 1..9}
    \cup {<<"L", "P", "T", DigitChars[n + 1]>> : n \in 1..9}

\* name is device name dev in some letter case.
SameIgnoringCase(name, dev) ==
    /\ Len(name) = Len(dev)
    /\ \A k \in 1..Len(dev) :
          \/ name[k] = dev[k]
          \/ \E n \in DOMAIN UpperChars :
                UpperChars[n] = dev[k] /\ LowerChars[n] = name[k]

\* The names C9 is about: empty, ".", "..", with a path separator, or a
\* reserved device name in any letter case.
RejectedName(name) ==
    \/ name = <<>>
    \/ name = <<".">>
    \/ name = <<".", ".">>
    \/ \E k \in 1..Len(name) : name[k] \in {"/", "\\"}
    \/ \E dev \in DeviceNames : SameIgnoringCase(name, dev)

\* C9: a create_directory call with such a name raises, without calling
\* mkdir and with the filesystem as it was.
C9_InvalidNameFailsBeforeFilesystem ==
    (lastCreate.called /\ RejectedName(lastCreate.name)) =>
        /\ lastCreate.raised
        /\ ~lastCreate.mkdirCalled
        /\ fs = lastCreate.fsBefore
        /\ Children(fs, lastCreate.path)
              = Children(lastCreate.fsBefore, lastCreate.path)

\* C9 witness: create_directory(D, "con") raised.
C9_Witness ==
    /\ lastCreate.called
    /\ lastCreate.name = <<"c", "o", "n">>
    /\ lastCreate.path = <<NameD>>
    /\ lastCreate.raised

\* C10 as claimed: a create_directory call with a name that passes
\* validation returns an OperationItem; when the target exists the result is
\* error with the "already exists" message and the filesystem is as it was;
\* otherwise the result is success and the target is a directory.
C10_AsClaimed ==
    (lastCreate.called /\ validate_filename(lastCreate.name)) =>
        LET target == lastCreate.path \o <<lastCreate.name>>
            f0     == lastCreate.fsBefore
            oi     == lastCreate.item
        IN  /\ ~lastCreate.raised
            /\ Exists(f0, target) =>
                  /\ oi.result = "error"
                  /\ oi.error_message = Some("Directory already exists")
                  /\ fs = f0
            /\ ~Exists(f0, target) =>
                  /\ oi.result = "success"
                  /\ IsDir(fs, target)

\* C10, amended: a create_directory call with a name that passes validation
\* returns an OperationItem (it does not raise); when the target exists the result is
\* error with the "already exists" message and the filesystem is as it was;
\* when it does not exist and mkdir does not fail (no ancestor is a file, no
\* permission error) the result is success, the target and its ancestors
\* are directories and nothing else changed; when mkdir fails the result is
\* error and the filesystem is as it was.
C10_CreateDirectoryReturnsResult ==
    (lastCreate.called /\ validate_filename(lastCreate.name)) =>
        LET target == lastCreate.path \o <<lastCreate.name>>
            f0     == lastCreate.fsBefore
            oi     == lastCreate.item
            fails  == lastCreate.ioFail
                      \/ \E a \in Ancestors(target) : IsFile(f0, a)
        IN  /\ ~lastCreate.raised
            /\ oi.destination = target
            /\ oi.result \in {"success", "error"}
            /\ Exists(f0, target) =>
                  /\ oi.result = "error"
                  /\ oi.error_message = Some("Directory already exists")
                  /\ fs = f0
            /\ (~Exists(f0, target) /\ ~fails) =>
                  /\ oi.result = "success"
                  /\ oi.error_message = None
                  /\ IsDir(fs, target)
                  /\ \A a \in Ancestors(target) : IsDir(fs, a)
                  /\ DOMAIN fs = (DOMAIN f0) \cup Ancestors(target) \cup {target}
                  /\ \A q \in DOMAIN f0 : fs[q] = f0[q]
            /\ (~Exists(f0, target) /\ fails) =>
                  /\ oi.result = "error"
                  /\ oi.error_message # None
                  /\ fs = f0

\* C10 witness: a second create_directory of the same new directory, whose
\* missing parents the first call had made, returned error.
C10_Witness ==
    /\ mkdirs = 2
    /\ lastCreate.called
    /\ lastCreate.path = <<NameD, NameN, NameP>>
    /\ lastCreate.name = NameX
    /\ ~Exists(SourceTree @@ BusyDest, <<NameD, NameN>>)
    /\ IsDir(fs, <<NameD, NameN, NameP, NameX>>)
    /\ lastCreate.item.result = "error"
    /\ lastCreate.item.error_message = Some("Directory already exists")

\* C11: the results of a batch are the results of the first items of the
\* input list, in input order, each with a terminal result; the items are
\* started one by one in input order, at most one is between its start and
\* its result; and while a batch runs the result list only grows at its end,
\* by the one item in progress, whose result was pending until that step.
C11_ResultsFollowInputOrder ==
    /\ [](/\ Len(results) <= Len(items)
          /\ \A j \in 1..Len(results) :
                /\ results[j].source = items[j].path
                /\ results[j].operation_type = operation_type
                /\ results[j].result \in Terminal
          /\ \A j \in 1..Len(itemLog) : itemLog[j].index = j
          /\ Len(itemLog) \in {Len(results), Len(results) + 1}
          /\ MidItem =>
                /\ Len(itemLog) = Len(results) + 1
                /\ i = Len(itemLog)
                /\ operation_item.source = items[i].path
                /\ operation_item.result = "None")
    /\ [][pc # "idle" =>
            \/ results' = results
            \/ /\ MidItem
               /\ Len(results') = Len(results) + 1
               /\ SubSeq(results', 1, Len(results)) = results
               /\ results'[Len(results')].source = items[i].path
               /\ results'[Len(results')].result \in Terminal
               /\ operation_item.result = "None"
               /\ i' = i + 1
               /\ pc' = "loop"
         ]_vars

\* C11 witness: a returned batch given the directory before the file, whose
\* first item failed and whose second item succeeded.
C11_Witness ==
    /\ BatchReturned
    /\ Len(items) = 2
    /\ items[1].is_dir
    /\ ~items[2].is_dir
    /\ Len(results) = 2
    /\ results[1].source = <<NameS, NameDir>>
    /\ results[1].result = "error"
    /\ results[2].source = <<NameS, NameA>>
    /\ results[2].result = "success"

\* Filesystem f0 with every item of its taken out of its place and put, with
\* all that is below it, under the same name into directory dir.
Relocated(f0, its, dir) ==
    LET srcs  == {its[j].path : j \in DOMAIN its}
        gone  == UNION {Subtree(f0, p) : p \in srcs}
        Target(q) ==
            LET p == CHOOSE s \in srcs : IsPrefix(s, q)
            IN  Rebase(q, Parent(p), dir)
        moved == {Target(q) : q \in gone}
    IN  [t \in ((DOMAIN f0) \ gone) \cup moved |->
            IF t \in moved THEN f0[CHOOSE q \in gone : Target(q) = t]
            ELSE f0[t]]

\* Every item of the running or returned batch found its destination free,
\* its primitive returned, and the batch has returned all of its results.
CleanBatch ==
    /\ pc = "idle"
    /\ Len(results) = Len(items)
    /\ \A j \in 1..Len(results) :
          ~itemLog[j].existed /\ itemLog[j].primitive = "returned"

\* C12: a move batch without conflicts and failures, and a copy batch
\* without conflicts and failures followed by a delete batch of the same
\* items without failures, both report success for every item and both
\* leave the filesystem they started from with the items relocated: the
\* sources gone, each item with its content in the destination directory,
\* everything else as it was.
C12_CopyThenDeleteIsMove ==
    /\ (batches = 1 /\ operation_type = "move" /\ CleanBatch) =>
          /\ \A j \in 1..Len(results) : results[j].result = "success"
          /\ fs = Relocated(fsAtEntry, items, destination_dir)
          /\ \A j \in 1..Len(items) : ~Exists(fs, items[j].path)
    /\ (roundTrip.made /\ roundTrip.clean /\ operation_type = "delete"
        /\ CleanBatch) =>
          /\ \A j \in 1..Len(results) : results[j].result = "success"
          /\ fs = Relocated(roundTrip.fs0, items, roundTrip.dir)
          /\ \A j \in 1..Len(items) : ~Exists(fs, items[j].path)

\* C12 witness: the file and the directory of S were copied into D/d and
\* then deleted from S, and D/d has them with their content.
C12_Witness ==
    /\ roundTrip.made
    /\ roundTrip.clean
    /\ roundTrip.dir = <<NameD, NameDir>>
    /\ operation_type = "delete"
    /\ CleanBatch
    /\ Len(items) = 2
    /\ fs[<<NameD, NameDir, NameA>>] = FileNode(3)
    /\ fs[<<NameD, NameDir, NameDir, NameC>>] = FileNode(4)
    /\ Children(fs, <<NameS>>) = {}

\* The sizes of the files among the first k items of the batch whose result
\* is success.
RECURSIVE SuccessBytes(_)
SuccessBytes(k) ==
    IF k = 0 THEN 0
    ELSE SuccessBytes(k - 1)
         + (IF ~items[k].is_dir /\ results[k].result = "success"
            THEN items[k].size ELSE 0)

\* C13: in a copy/move batch with an observer there is one snapshot per
\* started item, emitted before the item's result is in the list; snapshot k
\* has current_item k, total_items len(items), the item's path, total_bytes
\* the sizes of the files of the input, and current_bytes the sizes of the
\* files among the items before k that succeeded, which never decreases and
\* never exceeds total_bytes. A batch without an observer emits nothing, and
\* the step that starts an item does to the engine the same with and without
\* observer: it makes the item's pending OperationItem and changes neither
\* the filesystem, nor the results, the counters or the flag.
C13_ProgressPerStartedItem ==
    /\ [](operation_type \in {"copy", "move"} =>
            /\ Len(progressLog) \in {0, Len(itemLog)}
            /\ pc # "idle" =>
                  Len(progressLog) = IF _progress_callback THEN Len(itemLog) ELSE 0
            /\ (MidItem /\ _progress_callback) =>
                  Len(progressLog) = Len(results) + 1
            /\ \A k \in 1..Len(progressLog) :
                  /\ progressLog[k].current_item = k
                  /\ progressLog[k].total_items = Len(items)
                  /\ progressLog[k].current_file = items[k].path
                  /\ progressLog[k].operation_type = operation_type
                  /\ progressLog[k].total_bytes = TotalBytes(items)
                  /\ progressLog[k].current_bytes = SuccessBytes(k - 1)
                  /\ progressLog[k].current_bytes <= progressLog[k].total_bytes
                  /\ k > 1 => progressLog[k - 1].current_bytes
                                 <= progressLog[k].current_bytes)
    /\ [][(pc # "idle" /\ operation_type \in {"copy", "move"}) =>
            /\ progressLog' # progressLog =>
                  /\ _progress_callback
                  /\ Len(progressLog') = Len(progressLog) + 1
                  /\ SubSeq(progressLog', 1, Len(progressLog)) = progressLog
                  /\ Len(itemLog') = Len(itemLog) + 1
            /\ Len(itemLog') = Len(itemLog) + 1 =>
                  /\ pc = "loop" /\ pc' = "started"
                  /\ operation_item' =
                         OperationItem(items[i].path,
                                       destination_dir \o <<items[i].name>>,
                                       operation_type)
                  /\ destination' = operation_item'.destination
                  /\ UNCHANGED <<fs, results, current_bytes, i, _cancelled,
                                 items, resolverLog, _progress_callback>>
         ]_vars

\* C13 witness: a returned copy of the file and the directory with an
\* observer; the file succeeded, so the second snapshot counts its 3 bytes.
C13_Witness ==
    /\ BatchReturned
    /\ operation_type = "copy"
    /\ _progress_callback
    /\ Len(progressLog) = 2
    /\ Len(results) = 2
    /\ results[1].result = "success"
    /\ progressLog[1].current_bytes = 0
    /\ progressLog[2].current_bytes = 3
    /\ progressLog[2].total_bytes = 3
    /\ progressLog[2].current_item = 2

\* The sum of the sizes of the files in set S of filesystem f.
RECURSIVE SumOfSizes(_, _)
SumOfSizes(f, S) ==
    IF S = {} THEN 0
    ELSE LET q == CHOOSE q \in S : TRUE
         IN  f[q].data + SumOfSizes(f, S \ {q})

\* The files at any depth below directory d that raise no access error:
\* their stat does not raise, and every directory from d down to them can
\* be listed.
FilesNotRaising(f, d, mode) ==
    {q \in Subtree(f, d) \ {d} :
        /\ IsFile(f, q)
        /\ ~StatRaises(q, mode)
        /\ \A a \in Ancestors(q) : IsPrefix(d, a) => ~ScandirRaises(a, mode)}

\* item.size for the files of the list, and for each of its directories
\* the sizes of the files below it that raise no access error.
RECURSIVE ClaimedSize(_, _, _)
ClaimedSize(f, its, mode) ==
    IF its = <<>> THEN 0
    ELSE (IF its[1].is_dir
          THEN SumOfSizes(f, FilesNotRaising(f, its[1].path, mode))
          ELSE its[1].size)
         + ClaimedSize(f, Tail(its), mode)

\* C14: calculate_operation_size never fails, and returns the sizes of the
\* files of the list plus, for each directory of the list, the sizes of all
\* files below it at any depth, where the entries that raise access errors
\* contribute nothing.
C14_SizeSumsFilesThatDoNotRaise ==
    lastSize.called =>
        /\ ~lastSize.raised
        /\ lastSize.total = ClaimedSize(fs, sizeArgs.items, sizeArgs.mode)

\* C15: in every state the panel reaches by cursor moves with any delta,
\* jumps to any index and reloads of the directory, a non-empty file_items
\* has the cursor on one of its entries: 0 <= selected_index < len(file_items).
C15_CursorInRange ==
    (panel.made /\ panel.file_items # <<>>) =>
        /\ 0 <= panel.selected_index
        /\ panel.selected_index < Len(panel.file_items)

\* The cursor stands on the last of at least three entries, below the first
\* visible row.
C15_Witness ==
    /\ panel.mounted
    /\ Len(panel.file_items) >= 3
    /\ panel.selected_index = Len(panel.file_items) - 1
    /\ panel._scroll_offset > 0

\* C16: scroll window. After every cursor move with V >= 1 visible rows the
\* scroll offset is not negative and the cursor is inside the window,
\* _scroll_offset <= cursor < _scroll_offset + V, and the offset is changed
\* only when the cursor would leave the window: to the cursor when the cursor
\* is above it, to cursor - V + 1 when it is below. Stated for the cursor keys
\* of the first interface's panel, whose _ensure_selected_visible the claim
\* names.
C16_ScrollWindow ==
    [][((\E key \in {"up", "down"} : on_key(key, "none")) /\ legacy.active) =>
           /\ legacy'._scroll_offset >= 0
           /\ legacy'._scroll_offset <= legacy'.selected
           /\ legacy'.selected < legacy'._scroll_offset + LegacyRows(legacy')
           /\ legacy'._scroll_offset =
                  IF legacy'.selected < legacy._scroll_offset
                  THEN legacy'.selected
                  ELSE IF legacy'.selected >=
                              legacy._scroll_offset + LegacyRows(legacy)
                       THEN legacy'.selected - LegacyRows(legacy) + 1
                       ELSE legacy._scroll_offset]_vars

\* C17: navigation (load_directory with a path, entering the directory under
\* the cursor, going to the parent) always leaves the panel on the new
\* current_path with the cursor on 0, the scroll offset 0 and nothing
\* selected, whatever cursor, offset and selection were before.
C17_NavigateResets ==
    [][(\/ \E path \in PanelPaths : navigate(path, "none")
        \/ /\ \E key \in {"left", "backspace", "right", "enter"} :
                 handle_key(key, "none")
           /\ panel'.current_path # panel.current_path) =>
           /\ panel'.selected_index = 0
           /\ panel'._scroll_offset = 0
           /\ panel'.selected_items = {}
           /\ \A path \in PanelPaths :
                 (navigate(path, "none") /\ IsDir(fs, path)) =>
                     panel'.current_path = path]_vars

\* C18: the parent entry ".." is never selected and never handed to a batch
\* operation: after any toggles, select-all, cursor moves and reloads no
\* index in selected_items is the index of "..", and get_selected_items
\* returns no "..".
C18_ParentNeverSelected ==
    /\ \A k \in panel.selected_items :
          (0 <= k /\ k < Len(panel.file_items)) =>
              ItemAt(panel.file_items, k).name # <<".", ".">>
    /\ returned.called =>
          \A j \in 1..Len(returned.items) :
              returned.items[j].name # <<".", ".">>

\* With the cursor on ".." and a selection made in a listing that holds "..",
\* get_selected_items has returned entries.
C18_Witness ==
    /\ panel.file_items # <<>>
    /\ 0 <= panel.selected_index
    /\ panel.selected_index < Len(panel.file_items)
    /\ ItemAt(panel.file_items, panel.selected_index).name = <<".", ".">>
    /\ Cardinality(panel.selected_items) >= 2
    /\ returned.called
    /\ Len(returned.items) = Cardinality(panel.selected_items)

\* C19: the effective selection. get_selected_items returns the entries at
\* the indices of selected_items when that set is not empty; otherwise exactly
\* the one entry under the cursor, and the empty list when the cursor is on
\* ".." or there are no entries.
C19_EffectiveSelection ==
    returned.called =>
        IF panel.selected_items # {}
        THEN /\ Len(returned.items) = Cardinality(panel.selected_items)
             /\ {returned.items[j] : j \in 1..Len(returned.items)} =
                    {ItemAt(panel.file_items, k) : k \in panel.selected_items}
        ELSE IF \/ panel.file_items = <<>>
                \/ ItemAt(panel.file_items, panel.selected_index).name =
                       <<".", ".">>
             THEN returned.items = <<>>
             ELSE returned.items =
                      <<ItemAt(panel.file_items, panel.selected_index)>>

\* get_selected_items was asked with nothing selected and the cursor on "..",
\* in a listing that has other entries.
C19_Witness ==
    /\ returned.called
    /\ panel.selected_items = {}
    /\ Len(panel.file_items) >= 2
    /\ ItemAt(panel.file_items, panel.selected_index).name = <<".", ".">>
    /\ returned.items = <<>>

\* C20: a range selection adds every index of the inclusive span between the
\* anchor and the target to selected_indices and removes nothing, for the
\* range key "m", for shift-click and for a drag with the right button alike.
C20_RangeSelectOnlyAdds ==
    [][LET Adds(a, b) ==
               (legacy.selected_indices \cup
                   ((IF a < b THEN a ELSE b)..(IF a < b THEN b ELSE a)))
                       \subseteq legacy'.selected_indices
       IN  /\ (on_key("m", "none") /\ legacy.active
                  /\ legacy.last_selected # None) =>
                  Adds(legacy.last_selected[1], legacy.selected)
           /\ \A row \in MouseRows :
                  (/\ on_mouse_down(row, FALSE, TRUE, 1)
                   /\ legacy.last_selected # None
                   /\ RowIndex(legacy, row) < Len(legacy.files)) =>
                      Adds(legacy.last_selected[1], RowIndex(legacy, row))
           /\ \A row \in MouseRows :
                  (/\ on_mouse_move(row)
                   /\ legacy.drag_select_start # None
                   /\ legacy.drag_select_button = Some(3)) =>
                      Adds(legacy.drag_select_start[1], legacy'.selected)]_vars

\* C21: after select-all (ctrl+a) selected_items is exactly the set of the
\* indices of all entries other than the parent entry "..", whatever was
\* selected before.
C21_SelectAllButParent ==
    [][handle_key("ctrl+a", "none") =>
           panel'.selected_items =
               {k \in 0..(Len(panel.file_items) - 1) :
                   ItemAt(panel.file_items, k).name # <<".", ".">>}]_vars

\* Everything but ".." is selected in a listing of five entries that holds
\* "..".
C21_Witness ==
    /\ Len(panel.file_items) = 5
    /\ \E k \in 0..4 :
          /\ ItemAt(panel.file_items, k).name = <<".", ".">>
          /\ panel.selected_items = (0..4) \ {k}

\* C22: in every reachable state of the first interface's panel the selection
\* is a set of indices of entries, selected_indices \subseteq [0, len(files)),
\* also when files is empty and directly after a refresh that shrinks the
\* list or fails.
C22_SelectionWithinEntries ==
    legacy.made =>
        \A k \in legacy.selected_indices : 0 <= k /\ k < Len(legacy.files)

\* C23: the hidden filter of a listing. With show_hidden off the listing
\* holds no entry whose name starts with "."; with show_hidden on it holds
\* every direct child of the directory. Stated for every refresh of the
\* first interface's panel in which the directory itself can be listed.
C23_HiddenFilter ==
    [][(\E fault \in {"none", "stat"} :
            \/ refresh_after_operation(fault)
            \/ action_toggle_hidden(fault)) =>
           LET names == {legacy'.files[j].name : j \in 1..Len(legacy'.files)}
               all   == {BaseName(q) : q \in Children(fs, legacy'.path)}
           IN  /\ ~legacy'.show_hidden => names = {n \in all : n[1] # "."}
               /\ legacy'.show_hidden => names = all]_vars

\* C24: the order of a listing. All directories come before all files, and
\* among the directories and among the files the entries are in ascending
\* order of their lower-cased names.
C24_ListingOrder ==
    \A j, k \in 1..Len(panel.file_items) :
        j < k =>
            LET x == panel.file_items[j]
                y == panel.file_items[k]
            IN  /\ x.is_dir \/ ~y.is_dir
                /\ x.is_dir = y.is_dir =>
                       ~StrLess(Lower(y.name), Lower(x.name))

\* A listing of two directories and three files in which the file "b" stands
\* before the file "E".
C24_Witness ==
    /\ Len(panel.file_items) = 5
    /\ panel.file_items[2].is_dir
    /\ ~panel.file_items[3].is_dir
    /\ panel.file_items[4].name = <<"b">>
    /\ panel.file_items[5].name = <<"E">>

\* C25: navigation fails soft onto a known-good directory. load_directory(p)
\* raises nothing for any p; when p does not exist the panel ends on the
\* home directory; when p exists but cannot be read the panel falls back to
\* another directory (the parent or home); so after every navigation
\* current_path is an existing directory that could be read.
C25_NavigationFailsSoft ==
    [][\A path \in PanelPaths, fault \in LoadFaults :
           navigate(path, fault) =>
               /\ IsDir(fs, panel'.current_path)
               /\ (~Exists(fs, path) /\ fault = "none") =>
                      panel'.current_path = Home
               /\ (IsDir(fs, path) /\ fault # "none") =>
                      panel'.current_path # path]_vars

\* C26: a call of calculate_directory_sizes made while a scan runs changes
\* nothing, so at most one scan is in progress; is_calculating is true
\* exactly while a scan runs, also after a directory failed or the scan was
\* ended by an exception; and a call made while no scan runs starts one.
C26_ScanGuard ==
    /\ [](/\ Len(scan.frames) <= 1
          /\ scan.is_calculating <=> scan.frames # <<>>)
    /\ [][scan'.calls # scan.calls =>
            IF scan.frames # <<>>
            THEN scan' = [scan EXCEPT !.calls = @ + 1, !.noop = TRUE]
            ELSE /\ scan'.is_calculating
                 /\ scan'.frames = <<ScanTargets(panel)>>
                 /\ scan'.calculated_sizes = <<>>]_vars

\* The third call was refused: the scan it found running had been started
\* after an earlier one ended, and had cached a size already.
C26_Witness ==
    /\ scan.noop
    /\ scan.is_calculating
    /\ Len(scan.frames) = 1
    /\ scan.calls = 3
    /\ DOMAIN scan.calculated_sizes # {}

\* A batch is in flight: a queue exists or an item waits for its dialog.
InFlight(a) == \E op \in Ops : a.queue[op] # None \/ a.pending[op] # None

\* C27: while a batch is in flight (processing or waiting for its dialog),
\* a copy, move or delete action starts nothing: the queues, the pending
\* items and the dialog stay as they are.
C27_OneBatchInFlight ==
    [][(InFlight(app) /\ app'.actions # app.actions) =>
          /\ app'.queue = app.queue
          /\ app'.pending = app.pending
          /\ app'.dialog = app.dialog
          /\ app'.orphans = app.orphans]_vars

\* C28: a step that leaves a batch in flight (items still queued or an
\* item waiting for its dialog) leaves the listings of both panels as they
\* are: the panels are listed again only when the queue is drained.
C28_PanelsReloadAfterBatch ==
    [][InFlight(app') => app'.shown = app.shown]_vars

\* C29 as stated: load_config never raises and returns an AppConfig; with
\* no configuration file it returns the default configuration (language
\* 'en') and the file exists afterwards; with a file that is no valid JSON
\* it returns the default configuration.
C29_LoadCreatesFile ==
    cfg.last.op = "load" =>
        /\ ~cfg.last.raised
        /\ cfg._config # None /\ cfg.last.ret = cfg._config
        /\ cfg.last.before = "missing" =>
              /\ cfg._config = Some(from_dict(DEFAULT_CONFIG, cfg.dirs))
              /\ cfg._config[1].language = "en"
              /\ "config" \in DOMAIN cfg.files
        /\ cfg.last.before = "garbage" =>
              cfg._config = Some(from_dict(DEFAULT_CONFIG, cfg.dirs))

\* C29, amended: load_config never raises and returns an AppConfig; with no
\* configuration file it returns the default configuration (language 'en')
\* and writes it to the file, unless the write fails: then there is still
\* no file; with a file that is no valid JSON, or no JSON object, it
\* returns the default configuration and leaves the file alone.
C29_LoadNeverRaises ==
    cfg.last.op = "load" =>
        /\ ~cfg.last.raised
        /\ cfg._config # None /\ cfg.last.ret = cfg._config
        /\ cfg.last.before = "missing" =>
              /\ cfg._config = Some(from_dict(DEFAULT_CONFIG, cfg.dirs))
              /\ cfg._config[1].language = "en"
              /\ IF cfg.last.fault
                 THEN "config" \notin DOMAIN cfg.files
                 ELSE /\ "config" \in DOMAIN cfg.files
                      /\ cfg.files["config"] = JsonObject(to_dict(cfg._config[1]))
        /\ cfg.last.before \in {"garbage", "list"} =>
              /\ cfg._config = Some(from_dict(DEFAULT_CONFIG, cfg.dirs))
              /\ ~cfg.last.wrote

\* load_config found no file and created it.
C29_Witness ==
    /\ cfg.last.op = "load"
    /\ cfg.last.before = "missing"
    /\ ~cfg.last.fault
    /\ "config" \in DOMAIN cfg.files
    /\ cfg._config[1].language = "en"

\* C30 as stated: once a configuration was saved and backed up, whatever is
\* set and saved later, restore_from_backup returns True and the
\* configuration is the one that was saved when the backup was taken;
\* backup_config without a configuration file returns False and writes
\* nothing.
C30_RestoreRoundTrip ==
    /\ (cfg.last.op = "restore" /\ cfg.snap # None) =>
          /\ cfg.last.ret = Some(TRUE)
          /\ cfg._config = cfg.snap
    /\ (cfg.last.op = "backup" /\ cfg.last.before = "missing") =>
          /\ cfg.last.ret = Some(FALSE)
          /\ ~cfg.last.wrote

\* C30, amended: once a configuration was saved and backed up, whatever is
\* set and saved later, restore_from_backup returns True unless the copy
\* fails, and the configuration is then the saved one as validation leaves
\* it: a panel path that is no directory any more is replaced by the home
\* directory; backup_config without a configuration file returns False and
\* writes nothing.
C30_RestoreReloadsBackup ==
    /\ (cfg.last.op = "restore" /\ cfg.snap # None) =>
          IF cfg.last.fault THEN cfg.last.ret = Some(FALSE)
          ELSE /\ cfg.last.ret = Some(TRUE)
               /\ cfg._config = Some(__post_init__(cfg.snap[1], cfg.dirs))
               /\ cfg.files["config"] = JsonObject(to_dict(cfg.snap[1]))
    /\ (cfg.last.op = "backup" /\ cfg.last.before = "missing") =>
          /\ cfg.last.ret = Some(FALSE)
          /\ ~cfg.last.wrote

\* A restore brought back the saved language and panel path.
C30_Witness ==
    /\ cfg.last.op = "restore"
    /\ cfg.snap # None
    /\ cfg.last.ret = Some(TRUE)
    /\ cfg._config = cfg.snap
    /\ cfg._config[1].language = "ru"
    /\ cfg._config[1].left_panel = "d"

\* C31: between any two consecutive items of a batch the engine gives the
\* event loop a turn: when an item after the first has started, the
\* coroutine was suspended at least once while the item before it was the
\* current one, conflict or not.
C31_YieldsBetweenItems ==
    \A k \in 1..Len(itemLog) :
        itemLog[k].index > 1 => SuspendedDuring(itemLog[k].index - 1)

\* The operation whose pending item on_dialog_confirm_result serves.
Served(a) ==
    IF a.pending["copy"] # None THEN "copy"
    ELSE IF a.pending["move"] # None THEN "move" ELSE "delete"

\* Only the batch of op is in flight, waiting for the answer to its dialog.
WaitsAlone(a, op) ==
    /\ a.dialog # None
    /\ a.pending[op] # None
    /\ \A o \in Ops \ {op} : a.queue[o] = None /\ a.pending[o] = None

\* C32: the answer 'cancel' to the dialog of a copy, move or delete batch
\* stops the batch: nothing is copied, moved or deleted any more, no further
\* dialog is mounted, the queue is gone and the panels of the batch list
\* their directories as they are.
C32_CancelStopsQueue ==
    [][(on_dialog_confirm_result("cancel") /\ WaitsAlone(app, Served(app))) =>
          /\ app'.disk = app.disk
          /\ app'.dialog = None
          /\ app'.pending[Served(app)] = None
          /\ app'.queue[Served(app)] = None
          /\ \A s \in {app.src_panel[Served(app)], app.dst_panel[Served(app)]} :
                app'.shown[s] = app'.disk[s]]_vars

\* C33: in every state the first interface's panel reaches by keys, mouse
\* events, hidden-file toggles and refreshes, empty directories included,
\* a non-empty listing has its cursor on one of its rows.
C33_LegacyCursorInRange ==
    (legacy.made /\ legacy.files # <<>>) =>
        (0 <= legacy.selected /\ legacy.selected < Len(legacy.files))

\* C34: no silent overwrite. When the primitive of a copy or move item runs
\* and the item's destination destination_dir/name existed when the item
\* was reached, what is at that destination stays as it was unless the
\* resolver was asked about the item and answered 'overwrite'.
C34_NoSilentOverwrite ==
    [][(pc = "execute" /\ i' = i + 1) =>
          LET d == destination_dir \o <<items[i].name>>
          IN  (itemLog[Len(itemLog)].existed
               /\ itemLog[Len(itemLog)].resolution # "overwrite") =>
                  TreeAt(fs', d) = TreeAt(fs, d)]_vars

\* C35: a cancellation belongs to the batch it was requested for: once a cancel
\* was requested while a batch runs, that batch starts no further item, also
\* when another batch call starts on the same manager meanwhile.
C35_CancelHonoured ==
    [][(pc = "loop" /\ pc' = "started") => ~cancelSeen]_vars

\* C36: no filesystem change without confirmation: copy_selected,
\* move_selected and delete_selected call the engine only after the dialog
\* returned 'yes' on a non-empty selection; a handler that returned after any
\* other answer or on an empty selection made no engine call, left the disk as
\* it was and reloaded no panel.
C36_Unconfirmed ==
    (ui.pc = "returned" /\ (ui.result # "yes" \/ ui.selected_items = <<>>)) =>
        /\ batches = ui.before
        /\ fs = ui.fs0
        /\ ui.reloaded = {}

C36_NoChangeWithoutYes ==
    /\ []C36_Unconfirmed
    /\ [][(batches' # batches \/ fs' # fs) =>
             (ui.result = "yes" /\ ui.selected_items # <<>>)]_vars

\* A handler returned on 'cancel' with a selection, after an earlier handler
\* was confirmed and ran its batch.
C36_Witness ==
    /\ ui.pc = "returned" /\ ui.result = "cancel" /\ ui.selected_items # <<>>
    /\ batches = 1 /\ fs # fsAtEntry

\* C37: exactly one panel is active and it is the one named by active_panel:
\* in every state of the application, from construction on and for any
\* persisted active_panel, left.active = (active_panel = 'left') and
\* right.active = (active_panel = 'right') with exactly one of them true; and
\* a key changes the state of the active panel only.
C37_PanelsAgree ==
    main.made =>
        /\ \A s \in Sides : main.panels[s].active = (main.active_panel = s)
        /\ \E s \in Sides : /\ main.panels[s].active
                            /\ ~main.panels[Other(s)].active

C37_OneActivePanel ==
    /\ []C37_PanelsAgree
    /\ [][(\E key \in {"up", "down", "space"} : main_on_key(key)) =>
            \A s \in Sides : ~main.panels[s].active =>
                                 main'.panels[s] = main.panels[s]]_vars

\* C38: cursor movement has no effect on the multi-selection: an up or down
\* key of the first interface's panel leaves selected_indices exactly as it
\* was.
C38_CursorKeepsSelection ==
    [][(\E key \in {"up", "down"} : on_key(key, "none")) =>
          legacy'.selected_indices = legacy.selected_indices]_vars

\* C39: whenever the listing of the panel holds the parent entry "..", that
\* entry is at index 0, ahead of every real entry.
C39_ParentFirst ==
    panel.made =>
        \A k \in 0..(Len(panel.file_items) - 1) :
            ItemAt(panel.file_items, k).name = <<".", ".">> => k = 0

\* C40: every batch call terminates.  The loop starts at most len(items)
\* items; a rename takes one of the first n + 1 numbered names, n being the
\* number of entries of the destination directory; and with a resolver that
\* answers every call a batch that was entered returns.
C40_LoopBound ==
    /\ Len(itemLog) <= Len(items)
    /\ i <= Len(items) + 1

C40_Terminates ==
    /\ []C40_LoopBound
    /\ [][(pc = "resolving" /\ pc' = "execute" /\ destination' # destination) =>
             \E counter \in
                 1..(Cardinality(Children(fs, Parent(destination))) + 1) :
                 destination' = Parent(destination) \o
                     <<NumberedName(BaseName(destination), counter)>>]_vars
    /\ (pc # "idle") ~> (pc = "idle")

\* A batch returned after its whole list, one item of it renamed to the
\* second numbered name.
C40_Witness ==
    /\ pc = "idle" /\ batches > 0 /\ stoppedAt = 0
    /\ Len(itemLog) = MaxItems /\ Len(items) = MaxItems
    /\ operation_type = "copy"
    /\ \E k \in 1..Len(results) :
          /\ results[k].destination # EmptyPath
          /\ BaseName(results[k].destination) =
                 NumberedName(BaseName(results[k].source), 2)

=============================================================================
